---- MODULE Spec2Model ----
(***************************************************************************)
(* Rule engine (BuildValidator, OwnerResolver, CostCalculator,             *)
(* ReachabilityChecker), MoveExecutor and the AI's own move application of *)
(* fortress-and-territories, on worlds of test scale: World(Width, 1), as  *)
(* the worlds of tests/test_ai_controller.py.                              *)
(*                                                                         *)
(* A coordinate is <<x, y>>.  A faction is its index in the `factions`     *)
(* list; `base[f]` is its base coordinate (the code spells it              *)
(* `faction.base` and `faction.base.coord`: both are the base coordinate). *)
(***************************************************************************)
EXTENDS Integers, Sequences, FiniteSets, TLC

\* ------------------------------------------------------------------ bounds
Width == 6
MaxRound == 1
MaxGameRound == 6
MaxPortals == 4

\* ------------------------------------------------------- program constants
None == 0
fortress_capture_cost == 3
bridge_build_cost == 5
bridge_capture_cost == 1
fog_radius == 5
tower_vision_radius == 15
move_budget == 5
actions_per_turn == 6
capacity == 20
WATER_COST == 999
MOUNTAIN_COST == 2
PLAIN_COST == 1

VARIABLES base, portal_links, flags, terrain, _towers, _portals, alive, territory, fortresses, towers, bridges, portals, converted_mountains, captured_towers, fortress_ages, current_round, event_log, tower_events, last, turn_manager, game_over, attempt, turn, gameplay_state, raised

vars == <<base, portal_links, flags, terrain, _towers, _portals, alive, territory, fortresses, towers, bridges, portals, converted_mountains, captured_towers, fortress_ages, current_round, event_log, tower_events, last, turn_manager, game_over, attempt, turn, gameplay_state, raised>>

\* ------------------------------------------------------------- grid, world
world == [width |-> Width, height |-> 1]

Coords == {<<x, y>> : x \in 0..(world.width - 1), y \in 0..(world.height - 1)}

in_bounds(c) == 0 <= c[1] /\ c[1] < world.width /\ 0 <= c[2] /\ c[2] < world.height

neighbors(c) == << <<c[1] + 1, c[2]>>, <<c[1] - 1, c[2]>>, <<c[1], c[2] + 1>>, <<c[1], c[2] - 1>> >>

Range(q) == {q[i] : i \in DOMAIN q}

manhattan_distance(a, b) == (IF a[1] >= b[1] THEN a[1] - b[1] ELSE b[1] - a[1]) + (IF a[2] >= b[2] THEN a[2] - b[2] ELSE b[2] - a[2])

\* TerrainConfig: the tile symbols stored in World.terrain
settings_terrain == [empty |-> " ", water |-> "~", mountain |-> "^", tower |-> "T", bridge |-> "B", portal |-> "H"]

\* The mutable part of the session, as one value: the operators below read and
\* return it, the actions bind it to the variables.
St == [terrain |-> terrain, _towers |-> _towers, _portals |-> _portals, alive |-> alive, territory |-> territory, fortresses |-> fortresses, towers |-> towers, bridges |-> bridges, portals |-> portals, converted_mountains |-> converted_mountains, captured_towers |-> captured_towers, fortress_ages |-> fortress_ages, event_log |-> event_log, tower_events |-> tower_events]

Factions == DOMAIN base

get_terrain(s, c) == IF in_bounds(c) THEN s.terrain[c] ELSE settings_terrain.empty

get_terrain_type(s, c) ==
    LET tile == get_terrain(s, c) IN
    IF tile = settings_terrain.water THEN "water"
    ELSE IF tile = settings_terrain.mountain THEN "mountain"
    ELSE IF tile = settings_terrain.bridge THEN "bridge"
    ELSE IF tile = settings_terrain.tower THEN "tower"
    ELSE IF tile = settings_terrain.portal THEN "portal"
    ELSE "empty"

get_move_cost(s, c) ==
    LET tile == get_terrain(s, c) IN
    IF tile = settings_terrain.water THEN WATER_COST
    ELSE IF tile = settings_terrain.mountain THEN MOUNTAIN_COST
    ELSE PLAIN_COST

is_water(s, c) == get_terrain(s, c) = settings_terrain.water

is_bridge(s, c) == get_terrain(s, c) = settings_terrain.bridge

is_tower(s, c) == get_terrain(s, c) = settings_terrain.tower

has_neutral_tower(s, c) == c \in s._towers

\* ------------------------------------------------------------------ faction
all_buildings(s, f) == s.territory[f] \cup s.fortresses[f] \cup s.towers[f] \cup s.bridges[f] \cup s.portals[f]

\* ------------------------------------------------------------ OwnerResolver
OwnerInfo(owner, is_fortress) == [owner |-> owner, is_fortress |-> is_fortress]

\* _classify_owner with the fortress set read as plain territory.
_classify_owner_plain(s, coord, faction) ==
    IF coord = base[faction] THEN OwnerInfo(faction, FALSE)
    ELSE IF coord \in all_buildings(s, faction) THEN OwnerInfo(faction, FALSE)
    ELSE OwnerInfo(None, FALSE)

_classify_owner(s, coord, faction) ==
    IF coord = base[faction] THEN OwnerInfo(faction, FALSE)
    ELSE IF coord \in s.fortresses[faction] THEN OwnerInfo(faction, TRUE)
    ELSE IF coord \in s.territory[faction]
         THEN OwnerInfo(faction, get_terrain_type(s, coord) \in {"bridge", "portal", "tower"})
    ELSE IF coord \in s.towers[faction] \/ coord \in s.bridges[faction] \/ coord \in s.portals[faction]
         THEN OwnerInfo(faction, TRUE)
    ELSE OwnerInfo(None, FALSE)

RECURSIVE find_owner_from(_, _, _, _, _)
find_owner_from(s, coord, my_faction, alive_first, i) ==
    IF i > Len(base) THEN OwnerInfo(None, FALSE)
    ELSE IF i = my_faction \/ (alive_first /\ ~s.alive[i]) \/ (~alive_first /\ s.alive[i])
         THEN find_owner_from(s, coord, my_faction, alive_first, i + 1)
    ELSE LET info == _classify_owner(s, coord, i) IN
         IF info.owner # None THEN info
         ELSE find_owner_from(s, coord, my_faction, alive_first, i + 1)

_find_owner(s, coord, my_faction, alive_first) == find_owner_from(s, coord, my_faction, alive_first, 1)

resolve(s, coord, my_faction) ==
    LET first == _find_owner(s, coord, my_faction, TRUE) IN
    IF first.owner # None THEN first
    ELSE _find_owner(s, coord, my_faction, FALSE)

\* ------------------------------------------------------ ReachabilityChecker
\* _check_fortress_connection: breadth-first over contiguous own fortresses,
\* true as soon as a visited fortress touches the base or own territory.
RECURSIVE fortress_bfs(_, _, _, _)
fortress_bfs(s, faction, queue, visited) ==
    IF queue = <<>> THEN FALSE
    ELSE LET nbrs == neighbors(Head(queue)) IN
         IF \E i \in DOMAIN nbrs : nbrs[i] = base[faction] \/ nbrs[i] \in s.territory[faction]
         THEN TRUE
         ELSE LET fresh == SelectSeq(nbrs, LAMBDA n : n \in s.fortresses[faction] /\ n \notin visited) IN
              fortress_bfs(s, faction, Tail(queue) \o fresh, visited \cup Range(fresh))

\* _check_fortress_connection looking at the neighbours of the start cell only.
_check_fortress_connection_unchained(s, start, faction) ==
    \E i \in 1..4 : neighbors(start)[i] = base[faction] \/ neighbors(start)[i] \in s.territory[faction]

_check_fortress_connection(s, start, faction) == fortress_bfs(s, faction, <<start>>, {start})

\* The inner loop of _check_supply_connection over the neighbours of one
\* dequeued cell: found, or the queue and visited set it leaves.
RECURSIVE supply_visit(_, _, _, _, _, _, _)
supply_visit(s, cell, faction, nbrs, i, queue, visited) ==
    IF i > Len(nbrs) THEN [found |-> FALSE, queue |-> queue, visited |-> visited]
    ELSE LET n == nbrs[i] IN
         IF n = cell THEN [found |-> TRUE, queue |-> queue, visited |-> visited]
         ELSE IF (n \in s.territory[faction] \/ n \in s.fortresses[faction]) /\ n \notin visited
         THEN LET linked == IF n \in DOMAIN portal_links THEN portal_links[n] ELSE n
                  follow == /\ n \in DOMAIN portal_links
                            /\ (linked \in s.territory[faction] \/ linked \in s.fortresses[faction])
                            /\ linked \notin (visited \cup {n})
              IN  supply_visit(s, cell, faction, nbrs, i + 1,
                               IF follow THEN queue \o <<n, linked>> ELSE queue \o <<n>>,
                               IF follow THEN visited \cup {n, linked} ELSE visited \cup {n})
         ELSE supply_visit(s, cell, faction, nbrs, i + 1, queue, visited)

RECURSIVE supply_bfs(_, _, _, _, _)
supply_bfs(s, cell, faction, queue, visited) ==
    IF queue = <<>> THEN FALSE
    ELSE LET r == supply_visit(s, cell, faction, neighbors(Head(queue)), 1, Tail(queue), visited) IN
         IF r.found THEN TRUE
         ELSE supply_bfs(s, cell, faction, r.queue, r.visited)

\* _check_supply_connection without the search from the base.
_check_supply_connection_local(s, cell, faction) ==
    cell = base[faction] \/ cell \in s.territory[faction] \/ cell \in s.fortresses[faction]

_check_supply_connection(s, cell, faction) ==
    IF cell = base[faction] THEN TRUE
    ELSE IF cell \notin s.territory[faction] /\ cell \notin s.fortresses[faction] THEN FALSE
    ELSE supply_bfs(s, cell, faction, <<base[faction]>>, {base[faction]})

_is_source_active(s, cell, faction, supply_mode) ==
    IF cell = base[faction] THEN TRUE
    ELSE IF supply_mode
    THEN \/ /\ cell \in DOMAIN portal_links
            /\ (portal_links[cell] \in s.fortresses[faction] \/ portal_links[cell] \in s.territory[faction])
            /\ _check_supply_connection(s, portal_links[cell], faction)
         \/ _check_supply_connection(s, cell, faction)
    ELSE IF cell \in s.territory[faction] THEN TRUE
    ELSE IF cell \in s.fortresses[faction]
    THEN IF cell \in DOMAIN portal_links THEN TRUE
         ELSE _check_fortress_connection(s, cell, faction)
    ELSE cell \in s.towers[faction] \/ cell \in s.bridges[faction] \/ cell \in s.portals[faction]

_has_reachable_source(s, target_cell, faction, my_cells, supply_mode) ==
    LET nbrs == neighbors(target_cell) IN
    \E i \in DOMAIN nbrs : nbrs[i] \in my_cells /\ _is_source_active(s, nbrs[i], faction, supply_mode)

has_reachable_source_default(s, target_cell, faction, my_cells) == _has_reachable_source(s, target_cell, faction, my_cells, FALSE)

has_reachable_source_supply(s, target_cell, faction, my_cells) == _has_reachable_source(s, target_cell, faction, my_cells, TRUE)

\* ----------------------------------------------------------- CostCalculator
\* compute_base_cost testing the fortress tier before the tower and portal
\* terrain.
compute_base_cost_fortress_first(tile, owner, is_fortress) ==
    IF tile.is_water /\ owner = None THEN bridge_build_cost
    ELSE IF tile.is_bridge /\ owner # None THEN bridge_capture_cost
    ELSE IF is_fortress THEN fortress_capture_cost
    ELSE IF tile.is_tower \/ tile.is_portal THEN 1
    ELSE tile.base_cost

compute_base_cost(tile, owner, is_fortress) ==
    IF tile.is_water /\ owner = None THEN bridge_build_cost
    ELSE IF tile.is_bridge /\ owner # None THEN bridge_capture_cost
    ELSE IF tile.is_tower \/ tile.is_portal THEN 1
    ELSE IF is_fortress THEN fortress_capture_cost
    ELSE tile.base_cost

\* ----------------------------------------------------------- BuildValidator
BuildResult(allowed, cost, owner, is_fortress) == [allowed |-> allowed, cost |-> cost, owner |-> owner, is_fortress |-> is_fortress]

_build_tile_context(s, coord) ==
    [terrain_type |-> get_terrain_type(s, coord),
     base_cost |-> get_move_cost(s, coord),
     is_water |-> is_water(s, coord),
     is_bridge |-> is_bridge(s, coord),
     is_tower |-> is_tower(s, coord) \/ has_neutral_tower(s, coord),
     is_portal |-> get_terrain_type(s, coord) = "portal",
     is_mountain |-> get_terrain_type(s, coord) = "mountain"]

_is_impassable(tile) == tile.base_cost >= 999 /\ ~tile.is_water

\* _is_own_cell finding no cell the faction's own.
_is_own_cell_never(target_cell, my_cells) == FALSE

_is_own_cell(target_cell, my_cells) == target_cell \in my_cells

\* _can_capture without the classic lock.
_can_capture_always(s, owner_info, fl) == TRUE

\* _can_capture locking living owners' fortresses in every mode.
_can_capture_locked(s, owner_info, fl) ==
    ~(owner_info.is_fortress /\ owner_info.owner # None /\ s.alive[owner_info.owner])

_can_capture(s, owner_info, fl) ==
    IF fl.classic /\ owner_info.is_fortress /\ owner_info.owner # None /\ s.alive[owner_info.owner]
    THEN FALSE
    ELSE TRUE

has_reachable_source(s, target_cell, faction, my_cells, fl) ==
    IF fl.supply THEN has_reachable_source_supply(s, target_cell, faction, my_cells)
    ELSE has_reachable_source_default(s, target_cell, faction, my_cells)

\* _adjust_cost discounting every mountain, converted or not.
_adjust_cost_any_mountain(base_cost, coord, tile, converted, fl) ==
    IF fl.mountain_efficiency /\ tile.is_mountain
    THEN (IF base_cost <= 1 THEN base_cost ELSE 1)
    ELSE base_cost

_adjust_cost(base_cost, coord, tile, converted, fl) ==
    IF fl.mountain_efficiency /\ tile.is_mountain /\ coord \in converted
    THEN (IF base_cost <= 1 THEN base_cost ELSE 1)
    ELSE base_cost

validate(s, target_cell, my_faction, fl, converted) ==
    LET tile == _build_tile_context(s, target_cell)
        my_cells == all_buildings(s, my_faction) \cup {base[my_faction]}
        owner_info == resolve(s, target_cell, my_faction)
    IN  IF _is_impassable(tile) THEN BuildResult(FALSE, 0, None, FALSE)
        ELSE IF _is_own_cell(target_cell, my_cells) THEN BuildResult(FALSE, 0, None, FALSE)
        ELSE IF ~_can_capture(s, owner_info, fl) THEN BuildResult(FALSE, 0, owner_info.owner, TRUE)
        ELSE IF ~has_reachable_source(s, target_cell, my_faction, my_cells, fl)
             THEN BuildResult(FALSE, 0, owner_info.owner, owner_info.is_fortress)
        ELSE BuildResult(TRUE,
                         _adjust_cost(compute_base_cost(tile, owner_info.owner, owner_info.is_fortress), target_cell, tile, converted, fl),
                         owner_info.owner, owner_info.is_fortress)

\* validate building my_cells in place, in the faction's territory set
\* (my_faction.territory |= {my_faction.base}) instead of in a new set.
validate_leaves_shared_cells(s, target_cell, my_faction, fl, converted) ==
    [s EXCEPT !.territory[my_faction] = @ \cup {base[my_faction]}]

\* The session state a call of validate leaves behind.  validate and the
\* methods it calls (_build_tile_context, OwnerResolver.resolve,
\* ReachabilityChecker, CostCalculator, _adjust_cost) assign to locals only:
\* converted, tile, my_cells (a new set), owner_info, the searches' visited
\* and queue; none calls a mutator of the world or of a faction.
validate_leaves(s, target_cell, my_faction, fl, converted) == s

\* ------------------------------------------- Faction, World, EventLog methods
names == <<"Blue", "Red", "BOT 2">>

upper(name) == IF name = "Blue" THEN "BLUE" ELSE IF name = "Red" THEN "RED" ELSE name

\* One mutating call of the executor: the method `op` on faction f, coordinate
\* c, with argument x.
Op(op, f, c, x) == [op |-> op, f |-> f, c |-> c, x |-> x]

\* EventLog.add
EventLog_add(log, message) ==
    LET appended == Append(log, message) IN
    IF Len(appended) > capacity THEN Tail(appended) ELSE appended

\* _remove_from_faction_structures leaving the fortress set alone.
remove_from_faction_structures_keep_fortress(s, faction, coord) ==
    [s EXCEPT !.territory[faction] = @ \ {coord},
              !.towers[faction] = @ \ {coord},
              !.bridges[faction] = @ \ {coord},
              !.portals[faction] = @ \ {coord},
              !.fortress_ages = [k \in (DOMAIN @) \ {coord} |-> @[k]]]

\* _remove_from_faction_structures
remove_from_faction_structures(s, faction, coord) ==
    [s EXCEPT !.territory[faction] = @ \ {coord},
              !.fortresses[faction] = @ \ {coord},
              !.towers[faction] = @ \ {coord},
              !.bridges[faction] = @ \ {coord},
              !.portals[faction] = @ \ {coord},
              !.fortress_ages = [k \in (DOMAIN @) \ {coord} |-> @[k]]]

\* _record_fortress_age writing the entry whatever the mode.
_record_fortress_age_any_mode(s, coord, fl, round) ==
    [s EXCEPT !.fortress_ages = [k \in (DOMAIN @) \cup {coord} |-> IF k = coord THEN round ELSE @[k]]]

\* _record_fortress_age
_record_fortress_age(s, coord, fl, round) ==
    IF ~fl.classic THEN s
    ELSE [s EXCEPT !.fortress_ages = [k \in (DOMAIN @) \cup {coord} |-> IF k = coord THEN round ELSE @[k]]]

\* The effect of one call on the session state.
Exec(s, o, fl, round) ==
    IF o.op = "kill" THEN [s EXCEPT !.alive[o.f] = FALSE]
    ELSE IF o.op = "add_territory" THEN [s EXCEPT !.territory[o.f] = @ \cup {o.c}]
    ELSE IF o.op = "add_fortress" THEN [s EXCEPT !.fortresses[o.f] = @ \cup {o.c}]
    ELSE IF o.op = "add_tower" THEN [s EXCEPT !.towers[o.f] = @ \cup {o.c}]
    ELSE IF o.op = "add_bridge" THEN [s EXCEPT !.bridges[o.f] = @ \cup {o.c}]
    ELSE IF o.op = "add_portal" THEN [s EXCEPT !.portals[o.f] = @ \cup {o.c}]
    ELSE IF o.op = "remove_from_faction_structures" THEN remove_from_faction_structures(s, o.f, o.c)
    ELSE IF o.op = "record_fortress_age" THEN _record_fortress_age(s, o.c, fl, round)
    ELSE IF o.op = "remove_tower" THEN [s EXCEPT !._towers = @ \ {o.c}]
    ELSE IF o.op = "build_bridge"
         THEN (IF is_water(s, o.c) /\ in_bounds(o.c) THEN [s EXCEPT !.terrain[o.c] = settings_terrain.bridge] ELSE s)
    ELSE IF o.op = "portal_faction_id"
         THEN (IF o.c \in DOMAIN s._portals THEN [s EXCEPT !._portals[o.c] = o.x] ELSE s)
    ELSE IF o.op = "captured_towers_add" THEN [s EXCEPT !.captured_towers = @ \cup {o.c}]
    ELSE IF o.op = "converted_mountains_add" THEN [s EXCEPT !.converted_mountains = @ \cup {o.c}]
    ELSE IF o.op = "event_log_add"
         THEN [s EXCEPT !.event_log = EventLog_add(@, o.x),
                        !.tower_events = IF o.x[2] = "CAPTURED TOWER!" THEN [@ EXCEPT ![o.c] = @ + 1] ELSE @]
    ELSE s

RECURSIVE Run(_, _, _, _)
Run(s, ops, fl, round) == IF ops = <<>> THEN s ELSE Run(Exec(s, Head(ops), fl, round), Tail(ops), fl, round)

\* The states between the calls of one executor run (the final state included).
Steps(s, ops, fl, round) == {Run(s, SubSeq(ops, 1, k), fl, round) : k \in 1..Len(ops)}

FactionList == [i \in 1..Len(base) |-> i]

\* ------------------------------------------------------------- MoveExecutor
_add_fortress(faction, coord, track_age) ==
    <<Op("add_fortress", faction, coord, None)>> \o (IF track_age THEN <<Op("record_fortress_age", faction, coord, None)>> ELSE <<>>)

strip_each(who, coord) == [j \in 1..Len(who) |-> Op("remove_from_faction_structures", who[j], coord, None)]

\* _cleanup_dead_factions purging the cells to the right and left of the
\* target as well.
_cleanup_dead_factions_wide(s, cell) ==
    LET dead == SelectSeq(FactionList, LAMBDA f : ~s.alive[f]) IN
    strip_each(dead, cell) \o strip_each(dead, neighbors(cell)[1]) \o strip_each(dead, neighbors(cell)[2])

\* _cleanup_dead_factions removing nothing.
_cleanup_dead_factions_skipped(s, cell) == <<>>

_cleanup_dead_factions(s, cell) == strip_each(SelectSeq(FactionList, LAMBDA f : ~s.alive[f]), cell)

\* _capture_tower entering the tower in the territory set as well.
_capture_tower_as_territory(s, my_faction, cell) ==
    <<Op("remove_tower", my_faction, cell, None), Op("add_tower", my_faction, cell, None),
      Op("add_territory", my_faction, cell, None)>>
    \o _add_fortress(my_faction, cell, TRUE)
    \o (IF cell \notin s.captured_towers
        THEN <<Op("captured_towers_add", my_faction, cell, None),
               Op("event_log_add", my_faction, cell, <<upper(names[my_faction]), "CAPTURED TOWER!">>)>>
        ELSE <<>>)

_capture_tower(s, my_faction, cell) ==
    <<Op("remove_tower", my_faction, cell, None), Op("add_tower", my_faction, cell, None)>>
    \o _add_fortress(my_faction, cell, TRUE)
    \o (IF cell \notin s.captured_towers
        THEN <<Op("captured_towers_add", my_faction, cell, None),
               Op("event_log_add", my_faction, cell, <<upper(names[my_faction]), "CAPTURED TOWER!">>)>>
        ELSE <<>>)

portal_end(my_faction, coord) ==
    strip_each(SelectSeq(FactionList, LAMBDA f : f # my_faction), coord)
    \o <<Op("add_portal", my_faction, coord, None)>>
    \o _add_fortress(my_faction, coord, TRUE)
    \o <<Op("portal_faction_id", my_faction, coord, my_faction)>>

\* _capture_portal taking the target end only.
_capture_portal_one_end(s, my_faction, cell) == portal_end(my_faction, cell)

_capture_portal(s, my_faction, cell) ==
    portal_end(my_faction, cell)
    \o (IF cell \in DOMAIN portal_links THEN portal_end(my_faction, portal_links[cell]) ELSE <<>>)

\* _handle_capture_from_owner taking the base before it marks the owner dead.
_handle_capture_fortress_first(s, cell, owner, my_faction, is_portal, is_tower_, is_bridge_) ==
    IF cell = base[owner]
    THEN _add_fortress(my_faction, cell, FALSE)
         \o <<Op("kill", owner, cell, None)>>
         \o <<Op("event_log_add", owner, cell, <<names[owner], "DEFEATED!">>)>>
    ELSE <<Op("remove_from_faction_structures", owner, cell, None)>>
         \o (IF is_portal THEN _capture_portal(s, my_faction, cell)
             ELSE IF is_tower_ THEN _capture_tower(s, my_faction, cell)
             ELSE (IF is_bridge_ THEN <<Op("add_bridge", my_faction, cell, None)>> ELSE <<>>)
                  \o _add_fortress(my_faction, cell, TRUE))

\* _handle_capture_from_owner marking the acting faction dead along with the
\* owner of the base.
_handle_capture_kills_both(s, cell, owner, my_faction, is_portal, is_tower_, is_bridge_) ==
    IF cell = base[owner]
    THEN <<Op("kill", owner, cell, None), Op("kill", my_faction, cell, None)>>
         \o _add_fortress(my_faction, cell, FALSE)
         \o <<Op("event_log_add", owner, cell, <<names[owner], "DEFEATED!">>)>>
    ELSE <<Op("remove_from_faction_structures", owner, cell, None)>>
         \o (IF is_portal THEN _capture_portal(s, my_faction, cell)
             ELSE IF is_tower_ THEN _capture_tower(s, my_faction, cell)
             ELSE (IF is_bridge_ THEN <<Op("add_bridge", my_faction, cell, None)>> ELSE <<>>)
                  \o _add_fortress(my_faction, cell, TRUE))

\* _handle_capture_from_owner entering a captured cell without structure in
\* the territory set.
_handle_capture_as_territory(s, cell, owner, my_faction, is_portal, is_tower_, is_bridge_) ==
    IF cell = base[owner]
    THEN <<Op("kill", owner, cell, None)>>
         \o _add_fortress(my_faction, cell, FALSE)
         \o <<Op("event_log_add", owner, cell, <<names[owner], "DEFEATED!">>)>>
    ELSE <<Op("remove_from_faction_structures", owner, cell, None)>>
         \o (IF is_portal THEN _capture_portal(s, my_faction, cell)
             ELSE IF is_tower_ THEN _capture_tower(s, my_faction, cell)
             ELSE IF is_bridge_ THEN <<Op("add_bridge", my_faction, cell, None)>> \o _add_fortress(my_faction, cell, TRUE)
             ELSE <<Op("add_territory", my_faction, cell, None)>>)

_handle_capture_from_owner(s, cell, owner, my_faction, is_portal, is_tower_, is_bridge_) ==
    IF cell = base[owner]
    THEN <<Op("kill", owner, cell, None)>>
         \o _add_fortress(my_faction, cell, FALSE)
         \o <<Op("event_log_add", owner, cell, <<names[owner], "DEFEATED!">>)>>
    ELSE <<Op("remove_from_faction_structures", owner, cell, None)>>
         \o (IF is_portal THEN _capture_portal(s, my_faction, cell)
             ELSE IF is_tower_ THEN _capture_tower(s, my_faction, cell)
             ELSE (IF is_bridge_ THEN <<Op("add_bridge", my_faction, cell, None)>> ELSE <<>>)
                  \o _add_fortress(my_faction, cell, TRUE))

\* apply returning right after _handle_capture_from_owner: the mountain is
\* entered in the discount set on the captures of unowned cells only.
apply_owner_returns(s, cell, result, my_faction, fl) ==
    LET terrain_type == get_terrain_type(s, cell)
        water == terrain_type = "water"
        bridge == terrain_type = "bridge"
        portal == terrain_type = "portal"
        mountain == terrain_type = "mountain"
        tower == terrain_type = "tower" \/ has_neutral_tower(s, cell)
        owner == result.owner
    IN  IF owner # None /\ s.alive[owner]
        THEN _handle_capture_from_owner(s, cell, owner, my_faction, portal, tower, bridge)
        ELSE _cleanup_dead_factions(s, cell)
             \o (IF water
                 THEN <<Op("build_bridge", my_faction, cell, None), Op("add_bridge", my_faction, cell, None)>>
                      \o _add_fortress(my_faction, cell, TRUE)
                 ELSE IF tower THEN _capture_tower(s, my_faction, cell)
                 ELSE IF portal THEN _capture_portal(s, my_faction, cell)
                 ELSE IF result.is_fortress \/ bridge
                 THEN (IF bridge THEN <<Op("add_bridge", my_faction, cell, None)>> ELSE <<>>)
                      \o _add_fortress(my_faction, cell, TRUE)
                 ELSE <<Op("add_territory", my_faction, cell, None)>>)
             \o (IF mountain /\ fl.mountain_efficiency
                 THEN <<Op("converted_mountains_add", my_faction, cell, None)>>
                 ELSE <<>>)

apply(s, cell, result, my_faction, fl) ==
    LET terrain_type == get_terrain_type(s, cell)
        water == terrain_type = "water"
        bridge == terrain_type = "bridge"
        portal == terrain_type = "portal"
        mountain == terrain_type = "mountain"
        tower == terrain_type = "tower" \/ has_neutral_tower(s, cell)
        owner == result.owner
    IN  (IF owner # None /\ s.alive[owner]
         THEN _handle_capture_from_owner(s, cell, owner, my_faction, portal, tower, bridge)
         ELSE _cleanup_dead_factions(s, cell)
              \o (IF water
                  THEN <<Op("build_bridge", my_faction, cell, None), Op("add_bridge", my_faction, cell, None)>>
                       \o _add_fortress(my_faction, cell, TRUE)
                  ELSE IF tower THEN _capture_tower(s, my_faction, cell)
                  ELSE IF portal THEN _capture_portal(s, my_faction, cell)
                  ELSE IF result.is_fortress \/ bridge
                  THEN (IF bridge THEN <<Op("add_bridge", my_faction, cell, None)>> ELSE <<>>)
                       \o _add_fortress(my_faction, cell, TRUE)
                  ELSE <<Op("add_territory", my_faction, cell, None)>>))
        \o (IF mountain /\ fl.mountain_efficiency
            THEN <<Op("converted_mountains_add", my_faction, cell, None)>>
            ELSE <<>>)

\* ------------------------------------------------------- VisibilityService
_precompute_offsets(radius) == {d \in ((0 - radius)..radius) \X ((0 - radius)..radius) : d[1] * d[1] + d[2] * d[2] <= radius * radius}

\* _paint for every source of one radius: the in-bounds cells within the disc
paint(sources, radius) == {c \in Coords : \E src \in sources : <<c[1] - src[1], c[2] - src[2]>> \in _precompute_offsets(radius)}

get_visible_cells(s, faction) ==
    LET tower_forts == {c \in s.fortresses[faction] : has_neutral_tower(s, c) \/ c \in s.towers[faction]}
        normal_sources == {base[faction]} \cup s.territory[faction] \cup (s.fortresses[faction] \ tower_forts)
        tower_sources == tower_forts \cup s.towers[faction]
    IN  paint(normal_sources, gameplay_state.fog_radius) \cup paint(tower_sources, gameplay_state.tower_vision_radius)

\* ------------------------------------------------------------ TargetChecker
\* collect_candidates without the test of the cost against the moves left.
collect_candidates_any_cost(s, my_faction, fl, moves_left, converted, visible_cells) ==
    LET my_cells == all_buildings(s, my_faction) \cup {base[my_faction]}
        possible_spots == {n \in Coords : \E cell \in my_cells : \E i \in 1..4 : neighbors(cell)[i] = n}
    IN  {cand \in {[coord |-> coord, result |-> validate(s, coord, my_faction, fl, converted)] : coord \in possible_spots \ my_cells} :
            /\ cand.result.allowed
            /\ ~(cand.result.owner # None /\ cand.coord \notin visible_cells)}

collect_candidates(s, my_faction, fl, moves_left, converted, visible_cells) ==
    LET my_cells == all_buildings(s, my_faction) \cup {base[my_faction]}
        possible_spots == {n \in Coords : \E cell \in my_cells : \E i \in 1..4 : neighbors(cell)[i] = n}
    IN  {cand \in {[coord |-> coord, result |-> validate(s, coord, my_faction, fl, converted)] : coord \in possible_spots \ my_cells} :
            /\ cand.result.allowed
            /\ cand.result.cost <= moves_left
            /\ ~(cand.result.owner # None /\ cand.coord \notin visible_cells)}

\* ----------------------------------------------------------- TargetSelector
max(a, b) == IF a >= b THEN a ELSE b

\* The cells the selector counts as an enemy's, and the sum it calls power.
enemy_cells(s, faction) == s.territory[faction] \cup s.fortresses[faction] \cup {base[faction]}

power(s, faction) == Cardinality(s.territory[faction]) + Cardinality(s.fortresses[faction])

\* The visible cells of living enemies nearer to the base of me than radius,
\* one entry for each faction holding the cell.
seen_enemy_cells(s, me, visible_cells, radius) ==
    {<<faction, cell>> \in Factions \X Coords :
        /\ faction # me
        /\ s.alive[faction]
        /\ cell \in enemy_cells(s, faction)
        /\ cell \in visible_cells
        /\ manhattan_distance(cell, base[me]) < radius}

needs_base_defense(s, me, visible_cells) ==
    IF visible_cells = {} THEN FALSE
    ELSE LET seen == seen_enemy_cells(s, me, visible_cells, 8) IN
         \/ \E e \in seen : manhattan_distance(e[2], base[me]) <= 5
         \/ Cardinality(seen) >= 3

\* select_target: the threat of the lowest score dist * (1 + 0.5 * power_ratio),
\* compared here multiplied by 2 * max(my_power, 1); failing any threat, the
\* visible enemy base of the lowest score dist * (1 + 0.1 * enemy_power), times
\* 0.7 for a weak enemy, compared here multiplied by 100.  The result is the
\* set of cells the iteration order may make the winner; empty for None.
select_target(s, me, visible_cells) ==
    LET my_power == power(s, me)
        threats == seen_enemy_cells(s, me, visible_cells, 12)
        threat_score(e) == manhattan_distance(e[2], base[me]) * (2 * max(my_power, 1) + power(s, e[1]))
        bases == {faction \in Factions : faction # me /\ s.alive[faction] /\ base[faction] \in visible_cells}
        base_score(faction) ==
            manhattan_distance(base[me], base[faction]) * (10 + power(s, faction))
                * (IF 2 * power(s, faction) < max(my_power, 2) THEN 7 ELSE 10)
    IN  IF threats # {}
        THEN {e[2] : e \in {e \in threats : \A other \in threats : threat_score(e) <= threat_score(other)}}
        ELSE {base[faction] : faction \in {faction \in bases : \A other \in bases : base_score(faction) <= base_score(other)}}

\* select_roaming_target: the first in-bounds neighbour, in shuffled order, of
\* a cell drawn from the faction's territory, fortresses and base.
select_roaming_target(s, me) ==
    UNION {LET inside == {n \in Coords : \E i \in 1..4 : neighbors(anchor)[i] = n} IN
           IF inside = {} THEN {anchor} ELSE inside :
               anchor \in s.territory[me] \cup s.fortresses[me] \cup {base[me]}}

\* find_priority_target: the visible neutral tower, or the visible linked
\* portal, next to a cell of the faction and nearest to its base; a tower wins
\* a tie with a portal.  The result is the set of coordinates the iteration
\* order may make the winner; empty for None.
find_priority_target(s, me, visible_cells) ==
    IF visible_cells = {} THEN {}
    ELSE LET my_cells == s.territory[me] \cup s.fortresses[me] \cup {base[me]}
             next_to_mine(c) == \E cell \in my_cells : manhattan_distance(c, cell) = 1
             tower_targets == {tower \in s._towers : tower \in visible_cells /\ next_to_mine(tower)}
             portal_targets == {portal \in DOMAIN portal_links :
                                  /\ portal \in visible_cells
                                  /\ get_terrain_type(s, portal) = "portal"
                                  /\ next_to_mine(portal)}
             dist(c) == manhattan_distance(c, base[me])
             nearest(group) == {c \in group : \A other \in tower_targets \cup portal_targets : dist(c) <= dist(other)}
         IN  IF nearest(tower_targets) # {} THEN nearest(tower_targets) ELSE nearest(portal_targets)

\* _determine_strategy: the (target, roaming) pairs it may return.
_determine_strategy(s, me, visible_cells) ==
    IF needs_base_defense(s, me, visible_cells) THEN {[target |-> base[me], roaming |-> FALSE]}
    ELSE LET target == select_target(s, me, visible_cells)
             priority == find_priority_target(s, me, visible_cells)
         IN  IF priority # {} THEN {[target |-> c, roaming |-> FALSE] : c \in priority}
             ELSE IF target # {} THEN {[target |-> c, roaming |-> FALSE] : c \in target}
             ELSE {[target |-> c, roaming |-> TRUE] : c \in select_roaming_target(s, me)}

\* ------------------------------------------- AIController (own move helpers)
ai_add_fortress(faction, coord, track_age) ==
    <<Op("add_fortress", faction, coord, None)>> \o (IF track_age THEN <<Op("record_fortress_age", faction, coord, None)>> ELSE <<>>)

ai_cleanup_dead_factions(s, cell) == strip_each(SelectSeq(FactionList, LAMBDA f : ~s.alive[f]), cell)

\* The AI's _capture_tower logging no event.
ai_capture_tower_silent(s, my_faction, cell) ==
    <<Op("remove_tower", my_faction, cell, None), Op("add_tower", my_faction, cell, None)>>
    \o ai_add_fortress(my_faction, cell, TRUE)
    \o (IF cell \notin s.captured_towers THEN <<Op("captured_towers_add", my_faction, cell, None)>> ELSE <<>>)

ai_capture_tower(s, my_faction, cell) ==
    <<Op("remove_tower", my_faction, cell, None), Op("add_tower", my_faction, cell, None)>>
    \o ai_add_fortress(my_faction, cell, TRUE)
    \o (IF cell \notin s.captured_towers
        THEN <<Op("captured_towers_add", my_faction, cell, None),
               Op("event_log_add", my_faction, cell, <<upper(names[my_faction]), "CAPTURED TOWER!">>)>>
        ELSE <<>>)

ai_portal_end(my_faction, coord) ==
    strip_each(SelectSeq(FactionList, LAMBDA f : f # my_faction), coord)
    \o <<Op("add_portal", my_faction, coord, None)>>
    \o ai_add_fortress(my_faction, coord, TRUE)
    \o <<Op("portal_faction_id", my_faction, coord, my_faction)>>

ai_capture_portal(s, my_faction, cell) ==
    ai_portal_end(my_faction, cell)
    \o (IF cell \in DOMAIN portal_links THEN ai_portal_end(my_faction, portal_links[cell]) ELSE <<>>)

ai_handle_capture_from_owner(s, cell, owner, my_faction, is_portal, is_tower_, is_bridge_) ==
    IF cell = base[owner]
    THEN <<Op("kill", owner, cell, None)>>
         \o ai_add_fortress(my_faction, cell, FALSE)
         \o <<Op("event_log_add", owner, cell, <<names[owner], "DEFEATED!">>)>>
    ELSE <<Op("remove_from_faction_structures", owner, cell, None)>>
         \o (IF is_portal THEN ai_capture_portal(s, my_faction, cell)
             ELSE IF is_tower_ THEN ai_capture_tower(s, my_faction, cell)
             ELSE (IF is_bridge_ THEN <<Op("add_bridge", my_faction, cell, None)>> ELSE <<>>)
                  \o ai_add_fortress(my_faction, cell, TRUE))

_apply_move(s, cell, result, my_faction, fl) ==
    LET terrain_type == get_terrain_type(s, cell)
        water == terrain_type = "water"
        bridge == terrain_type = "bridge"
        portal == terrain_type = "portal"
        mountain == terrain_type = "mountain"
        tower == terrain_type = "tower" \/ has_neutral_tower(s, cell)
        owner == result.owner
    IN  (IF owner # None /\ s.alive[owner]
         THEN ai_handle_capture_from_owner(s, cell, owner, my_faction, portal, tower, bridge)
         ELSE ai_cleanup_dead_factions(s, cell)
              \o (IF water
                  THEN <<Op("build_bridge", my_faction, cell, None), Op("add_bridge", my_faction, cell, None)>>
                       \o ai_add_fortress(my_faction, cell, TRUE)
                  ELSE IF tower THEN ai_capture_tower(s, my_faction, cell)
                  ELSE IF portal THEN ai_capture_portal(s, my_faction, cell)
                  ELSE IF result.is_fortress \/ bridge
                  THEN (IF bridge THEN <<Op("add_bridge", my_faction, cell, None)>> ELSE <<>>)
                       \o ai_add_fortress(my_faction, cell, TRUE)
                  ELSE <<Op("add_territory", my_faction, cell, None)>>))
        \o (IF mountain /\ fl.mountain_efficiency
            THEN <<Op("converted_mountains_add", my_faction, cell, None)>>
            ELSE <<>>)

\* dict item assignment: m[k] = v
Put(m, k, v) == [x \in (DOMAIN m) \cup {k} |-> IF x = k THEN v ELSE m[x]]

\* The linking loop of place_portals storing one direction only.
RECURSIVE link_from_one_way(_, _, _)
link_from_one_way(links, coords, i) ==
    IF i >= Len(coords) THEN links
    ELSE link_from_one_way(Put(links, coords[i], coords[i + 1]), coords, i + 2)

\* The linking loop of place_portals from position i of the shuffled list:
\* for i in range(0, len(portals) - 1, 2), both directions stored.
RECURSIVE link_from(_, _, _)
link_from(links, coords, i) ==
    IF i >= Len(coords) THEN links
    ELSE link_from(Put(Put(links, coords[i], coords[i + 1]), coords[i + 1], coords[i]), coords, i + 2)

\* place_portals: the link table it leaves for the portal coordinates it
\* drew, in their shuffled order.
place_portals(coords) == link_from([c \in {} |-> c], coords, 1)

\* ------------------------------------------------------------------- worlds
\* The worlds a session starts from: bases pairwise distinct
\* (FactionInitializer), towers and portals on tiles that were empty, portals
\* linked in symmetric pairs and never on a base, water never on a base; a tower
\* or a mountain may share a base's coordinate (place_towers skips the safe-zone
\* test for the ISLANDS and MOUNTAIN_MADNESS worlds, _grow_patch never applies it
\* to mountains).  Coordinates the world does not list are empty.
PortalWorld ==
    [bases |-> << <<0, 0>>, <<5, 0>> >>,
     tiles |-> (<<1, 0>> :> settings_terrain.portal) @@ (<<3, 0>> :> settings_terrain.portal),
     towers |-> {},
     links |-> place_portals(<< <<1, 0>>, <<3, 0>> >>)]

MixedWorld ==
    [bases |-> << <<0, 0>>, <<5, 0>> >>,
     tiles |-> (<<1, 0>> :> settings_terrain.mountain) @@ (<<2, 0>> :> settings_terrain.tower) @@ (<<3, 0>> :> settings_terrain.water),
     towers |-> {<<2, 0>>},
     links |-> [c \in {} |-> c]]

IslandWorld ==
    [bases |-> << <<0, 0>>, <<5, 0>> >>,
     tiles |-> (<<0, 0>> :> settings_terrain.mountain) @@ (<<2, 0>> :> settings_terrain.water) @@ (<<5, 0>> :> settings_terrain.tower),
     towers |-> {<<5, 0>>},
     links |-> [c \in {} |-> c]]

ThreeWorld ==
    [bases |-> << <<0, 0>>, <<2, 0>>, <<5, 0>> >>,
     tiles |-> (<<4, 0>> :> settings_terrain.tower),
     towers |-> {<<4, 0>>},
     links |-> [c \in {} |-> c]]

GateWorld ==
    [bases |-> << <<0, 0>>, <<5, 0>> >>,
     tiles |-> (<<1, 0>> :> settings_terrain.portal) @@ (<<3, 0>> :> settings_terrain.tower) @@ (<<4, 0>> :> settings_terrain.portal),
     towers |-> {<<3, 0>>},
     links |-> place_portals(<< <<1, 0>>, <<4, 0>> >>)]

\* The portal drawing loop of place_portals gave up with an odd number of
\* portals: the last of the shuffled list has portal terrain and no link.
OddWorld ==
    [bases |-> << <<0, 0>>, <<5, 0>> >>,
     tiles |-> (<<1, 0>> :> settings_terrain.portal) @@ (<<2, 0>> :> settings_terrain.portal) @@ (<<4, 0>> :> settings_terrain.portal),
     towers |-> {},
     links |-> place_portals(<< <<1, 0>>, <<4, 0>>, <<2, 0>> >>)]

Worlds == {PortalWorld, MixedWorld, IslandWorld, ThreeWorld, GateWorld, OddWorld}

GameModeFlags == [classic : BOOLEAN, supply : BOOLEAN, mountain_efficiency : BOOLEAN]

\* mountain_efficiency is read on mountain tiles only: a world without
\* mountains plays the same with the flag set or clear.
HasMountain(w) == \E c \in DOMAIN w.tiles : w.tiles[c] = settings_terrain.mountain

\* The executor call that led to the current state: who acted on which cell
\* with which validated result, and what the cell was when the call began.
Call(faction, cell, result, s) ==
    [faction |-> faction, cell |-> cell, result |-> result,
     owner_alive |-> result.owner # None /\ s.alive[result.owner],
     neutral_tower |-> has_neutral_tower(s, cell),
     terrain_type |-> get_terrain_type(s, cell)]

NoCall ==
    [faction |-> None, cell |-> <<0, 0>>, result |-> BuildResult(FALSE, 0, None, FALSE),
     owner_alive |-> FALSE, neutral_tower |-> FALSE, terrain_type |-> "empty"]

\* The player's last build attempt: who tried which cell, what the validator
\* said, and whether the executor ran.
NoAttempt == [faction |-> None, coord |-> <<0, 0>>, allowed |-> FALSE, cost |-> 0, applied |-> FALSE]

\* The last AI turn: whose it was, the candidates collected when it began, and
\* the cells the faction held when take_turn was called and when it returned.
NoTurn ==
    [faction |-> None, budget |-> 0, candidates |-> {}, before |-> {}, after |-> {}, visible_cells |-> {},
     strategy |-> {}, moves |-> <<>>, left |-> 0]

\* GameplayState with its defaults, and as _build_gameplay_state leaves it
\* when the ANTHILL mode is selected.
GameplayState == [fog_radius |-> fog_radius, tower_vision_radius |-> tower_vision_radius]

_build_gameplay_state(anthill) ==
    IF anthill THEN [GameplayState EXCEPT !.fog_radius = 1, !.tower_vision_radius = 3] ELSE GameplayState

\* The session _create_world_and_factions sets up, whatever the gameplay
\* state.
Setup ==
    \E w \in Worlds :
        /\ base = w.bases
        /\ portal_links = w.links
        /\ flags \in {fl \in GameModeFlags : fl.mountain_efficiency => HasMountain(w)}
        /\ terrain = [c \in Coords |-> IF c \in DOMAIN w.tiles THEN w.tiles[c] ELSE settings_terrain.empty]
        /\ _towers = w.towers
        /\ _portals = [c \in DOMAIN w.links |-> None]
        /\ alive = [f \in DOMAIN w.bases |-> TRUE]
        /\ territory = [f \in DOMAIN w.bases |-> {}]
        /\ fortresses = [f \in DOMAIN w.bases |-> {}]
        /\ towers = [f \in DOMAIN w.bases |-> {}]
        /\ bridges = [f \in DOMAIN w.bases |-> {}]
        /\ portals = [f \in DOMAIN w.bases |-> {}]
        /\ converted_mountains = {}
        /\ captured_towers = {}
        /\ fortress_ages = [c \in {} |-> 0]
        /\ current_round = 0
        /\ event_log = <<>>
        /\ tower_events = [c \in Coords |-> 0]
        /\ last = NoCall
        /\ turn_manager = [move_budget |-> actions_per_turn, current_index |-> 0, moves_left |-> actions_per_turn]
        /\ game_over = FALSE
        /\ attempt = NoAttempt
        /\ turn = NoTurn
        /\ raised = "none"

Init == Setup /\ gameplay_state = _build_gameplay_state(FALSE)

\* Bind the variables to the session state s.
Becomes(s) ==
    /\ terrain' = s.terrain
    /\ _towers' = s._towers
    /\ _portals' = s._portals
    /\ alive' = s.alive
    /\ territory' = s.territory
    /\ fortresses' = s.fortresses
    /\ towers' = s.towers
    /\ bridges' = s.bridges
    /\ portals' = s.portals
    /\ converted_mountains' = s.converted_mountains
    /\ captured_towers' = s.captured_towers
    /\ fortress_ages' = s.fortress_ages
    /\ event_log' = s.event_log
    /\ tower_events' = s.tower_events

\* The round number the driver hands to a call: the current one or a later
\* one.  Only _record_fortress_age reads it, and only under classic, so the
\* round stands still in the other modes.
Rounds == {r \in {current_round} \cup (IF flags.classic THEN {current_round + 1} ELSE {}) : r <= MaxRound}

\* A player's build: BuildValidator.validate, then MoveExecutor.apply on the
\* result it allowed.
Build(f, cell, round) ==
    /\ alive[f]
    /\ LET result == validate(St, cell, f, flags, converted_mountains) IN
           /\ result.allowed
           /\ \E after \in {Run(St, apply(St, cell, result, f, flags), flags, round)} : Becomes(after)
           /\ last' = Call(f, cell, result, St)
    /\ current_round' = round
    /\ turn' = NoTurn
    /\ UNCHANGED <<base, portal_links, flags, turn_manager, game_over, attempt, gameplay_state, raised>>

\* One iteration of the AI turn loop: collect_candidates, a candidate the
\* random scoring may pick, then the AI's own _apply_move.  moves_left is what
\* the loop has left of its budget: all of it on the first iteration, as
\* little as one on the last.  The visible cells are those of the state the
\* iteration starts in: exactly take_turn's on the first iteration, a superset
\* of them on a later one (the turn's own captures only add light sources).
AIMove(f, moves_left, round) ==
    /\ alive[f]
    /\ \E cand \in collect_candidates(St, f, flags, moves_left, converted_mountains, get_visible_cells(St, f)) :
           /\ \E after \in {Run(St, _apply_move(St, cand.coord, cand.result, f, flags), flags, round)} : Becomes(after)
           /\ last' = Call(f, cand.coord, cand.result, St)
    /\ current_round' = round
    /\ turn' = NoTurn
    /\ UNCHANGED <<base, portal_links, flags, turn_manager, game_over, attempt, gameplay_state, raised>>

Next ==
    \/ \E f \in Factions, cell \in Coords, round \in Rounds : Build(f, cell, round)
    \/ \E f \in Factions, moves_left \in {1, move_budget}, round \in Rounds : AIMove(f, moves_left, round)

Spec == Init /\ [][Next]_vars

\* =========================================================== GameController

\* What the controller holds besides the world and the factions: the session
\* state, the turn manager's two fields, the round counter and game_over.
Game == [s |-> St, turn_manager |-> turn_manager, current_round |-> current_round, game_over |-> game_over]

\* ------------------------------------------------------------- TurnManager
\* consume taking twice the amount.
consume_twice(g, amount) == [g EXCEPT !.turn_manager.moves_left = @ - 2 * amount]

consume(g, amount) == [g EXCEPT !.turn_manager.moves_left = @ - amount]

needs_advance(g) == g.turn_manager.moves_left <= 0

advance(g, total_factions) ==
    [g EXCEPT !.turn_manager.current_index = (@ + 1) % total_factions,
              !.turn_manager.moves_left = g.turn_manager.move_budget]

\* --------------------------------------------------------------- the rounds

\* age_faction expiring fortresses on bridge, tower and portal terrain too.
age_faction_any_terrain(s, round, faction) ==
    IF ~s.alive[faction] THEN s
    ELSE LET expired == {coord \in s.fortresses[faction] :
                            /\ coord # base[faction]
                            /\ coord \in DOMAIN s.fortress_ages
                            /\ round - s.fortress_ages[coord] > 5}
         IN  [s EXCEPT !.fortresses[faction] = @ \ expired,
                       !.territory[faction] = @ \cup expired,
                       !.fortress_ages = [k \in (DOMAIN @) \ expired |-> @[k]]]

\* One faction's pass of _age_fortresses_classic: the expired fortresses are
\* collected first, then each becomes territory and loses its age entry.
age_faction(s, round, faction) ==
    IF ~s.alive[faction] THEN s
    ELSE LET expired == {coord \in s.fortresses[faction] :
                            /\ coord # base[faction]
                            /\ get_terrain(s, coord) \notin {settings_terrain.bridge, settings_terrain.tower, settings_terrain.portal}
                            /\ ~has_neutral_tower(s, coord)
                            /\ coord \in DOMAIN s.fortress_ages
                            /\ round - s.fortress_ages[coord] > 5}
         IN  [s EXCEPT !.fortresses[faction] = @ \ expired,
                       !.territory[faction] = @ \cup expired,
                       !.fortress_ages = [k \in (DOMAIN @) \ expired |-> @[k]]]

RECURSIVE age_from(_, _, _)
age_from(s, round, faction) ==
    IF faction > Len(base) THEN s ELSE age_from(age_faction(s, round, faction), round, faction + 1)

\* _age_fortresses_classic expiring a fortress one round early.
_age_fortresses_classic_early(g, fl) ==
    IF ~fl.classic THEN g ELSE [g EXCEPT !.s = age_from(@, g.current_round + 1, 1)]

_age_fortresses_classic(g, fl) ==
    IF ~fl.classic THEN g ELSE [g EXCEPT !.s = age_from(@, g.current_round, 1)]

\* _advance_turn calling Faction.revive on every faction when a round begins.
_advance_turn_respawn(g, fl) ==
    LET previous_index == g.turn_manager.current_index
        advanced == advance(g, Len(base))
    IN  IF advanced.turn_manager.current_index = 0 /\ previous_index # 0
        THEN LET counted == [advanced EXCEPT !.current_round = @ + 1, !.s.alive = [f \in DOMAIN @ |-> TRUE]] IN
             IF fl.classic THEN _age_fortresses_classic(counted, fl) ELSE counted
        ELSE advanced

_advance_turn(g, fl) ==
    LET previous_index == g.turn_manager.current_index
        advanced == advance(g, Len(base))
    IN  IF advanced.turn_manager.current_index = 0 /\ previous_index # 0
        THEN LET counted == [advanced EXCEPT !.current_round = @ + 1] IN
             IF fl.classic THEN _age_fortresses_classic(counted, fl) ELSE counted
        ELSE advanced

\* _create_faction: outside observer mode the faction of index 0 is the human
\* player and every other one a bot.
player_faction_idx == 0

is_ai(faction) == faction # player_faction_idx + 1

\* _update_game_state never ending the game.
_update_game_state_never(g) == g

_update_game_state(g) ==
    LET defeated == IF ~g.s.alive[player_faction_idx + 1] THEN [g EXCEPT !.game_over = TRUE] ELSE g
        living == {f \in Factions : g.s.alive[f]}
    IN  IF Cardinality(living) = 1 /\ ~defeated.game_over
        THEN LET winner == CHOOSE f \in living : TRUE
                 msg == <<upper(names[winner]), "WINS!">>
             IN  [defeated EXCEPT !.game_over = TRUE,
                                  !.s.event_log = IF msg \in Range(@) THEN @ ELSE EventLog_add(@, msg)]
        ELSE defeated

\* ------------------------------------------------------- player interaction
\* _attempt_build without the check of the moves left against the cost.
_attempt_build_unchecked(g, faction, coord, fl) ==
    LET result == validate(g.s, coord, faction, fl, g.s.converted_mountains)
        validated == [g EXCEPT !.s = validate_leaves(@, coord, faction, fl, g.s.converted_mountains)]
        cost == max(1, result.cost)
    IN  IF ~result.allowed THEN validated
        ELSE LET applied == [validated EXCEPT !.s = Run(@, apply(@, coord, result, faction, fl), fl, validated.current_round)]
                 consumed == consume(applied, cost)
             IN  IF needs_advance(consumed) THEN _advance_turn(consumed, fl) ELSE consumed

_attempt_build(g, faction, coord, fl) ==
    LET result == validate(g.s, coord, faction, fl, g.s.converted_mountains)
        validated == [g EXCEPT !.s = validate_leaves(@, coord, faction, fl, g.s.converted_mountains)]
        cost == max(1, result.cost)
    IN  IF ~result.allowed THEN validated
        ELSE IF validated.turn_manager.moves_left < cost THEN validated
        ELSE LET applied == [validated EXCEPT !.s = Run(@, apply(@, coord, result, faction, fl), fl, validated.current_round)]
                 consumed == consume(applied, cost)
             IN  IF needs_advance(consumed) THEN _advance_turn(consumed, fl) ELSE consumed

_skip_action(g, fl) ==
    IF g.turn_manager.moves_left <= 0 THEN g
    ELSE LET consumed == consume(g, 1) IN
         IF needs_advance(consumed) THEN _advance_turn(consumed, fl) ELSE consumed

\* ------------------------------------------------------------- the AI turn

\* choose_candidate returning None whatever the candidates.
choose_candidate_none(candidates) == {}

\* choose_candidate scores every candidate with a random term and returns the
\* lowest: the candidates it may return.  An empty list gives None, here {}.
choose_candidate(candidates) == candidates

\* The loop of take_turn never charging a move to the budget.
RECURSIVE turn_loop_uncharged(_, _, _, _, _, _, _)
turn_loop_uncharged(s, faction, fl, round, left, visible_cells, moves) ==
    IF left <= 0 THEN {[s |-> s, left |-> left, moves |-> moves]}
    ELSE LET candidates == collect_candidates(s, faction, fl, left, s.converted_mountains, visible_cells) IN
         IF candidates = {} THEN {[s |-> s, left |-> left, moves |-> moves]}
         ELSE UNION {turn_loop_uncharged(Run(s, _apply_move(s, choice.coord, choice.result, faction, fl), fl, round),
                                         faction, fl, round, left, visible_cells,
                                         Append(moves, [at |-> s, left |-> left, choice |-> choice])) :
                         choice \in choose_candidate(candidates)}

\* The while loop of take_turn with `left` moves to go and the moves made so
\* far: the ways it may end, each with the session state it leaves, the budget
\* it has left and its moves in order.  A move records the state its
\* iteration began in, the budget left then and the candidate chosen.
\* visible_cells are those computed before the loop.
RECURSIVE turn_loop(_, _, _, _, _, _, _)
turn_loop(s, faction, fl, round, left, visible_cells, moves) ==
    IF left <= 0 THEN {[s |-> s, left |-> left, moves |-> moves]}
    ELSE LET candidates == collect_candidates(s, faction, fl, left, s.converted_mountains, visible_cells) IN
         IF candidates = {} THEN {[s |-> s, left |-> left, moves |-> moves]}
         ELSE IF choose_candidate(candidates) = {} THEN {[s |-> s, left |-> left, moves |-> moves]}
         ELSE UNION {turn_loop(Run(s, _apply_move(s, choice.coord, choice.result, faction, fl), fl, round),
                               faction, fl, round, left - max(1, choice.result.cost), visible_cells,
                               Append(moves, [at |-> s, left |-> left, choice |-> choice])) :
                         choice \in choose_candidate(candidates)}

take_turn(s, faction, fl, round, budget) ==
    IF ~s.alive[faction] THEN {[s |-> s, left |-> budget, moves |-> <<>>]}
    ELSE turn_loop(s, faction, fl, round, budget, get_visible_cells(s, faction), <<>>)

\* The keyword parameters take_turn declares (it takes no **kwargs), and the
\* keywords _run_ai_turn passes.
take_turn_keywords == {"converted_mountains", "captured_towers", "event_log", "current_round", "fortress_ages"}

_run_ai_turn_keywords == {"converted_mountains", "captured_towers", "event_log", "current_round", "fortress_ages", "render_callback"}

\* A call of take_turn with the given keywords: a keyword the signature does
\* not declare raises TypeError before the body runs.
call_take_turn(s, faction, fl, round, budget, keywords) ==
    IF keywords \subseteq take_turn_keywords
    THEN [raised |-> "none", ends |-> take_turn(s, faction, fl, round, budget)]
    ELSE [raised |-> "TypeError", ends |-> {[s |-> s, left |-> budget, moves |-> <<>>]}]

\* What the last call of take_turn was and did.
Turn(faction, budget, s, end) ==
    [faction |-> faction, budget |-> budget,
     candidates |-> {cand.coord : cand \in collect_candidates(s, faction, flags, budget, s.converted_mountains, get_visible_cells(s, faction))},
     before |-> all_buildings(s, faction) \cup {base[faction]},
     after |-> all_buildings(end.s, faction) \cup {base[faction]},
     visible_cells |-> get_visible_cells(s, faction),
     strategy |-> _determine_strategy(s, faction, get_visible_cells(s, faction)),
     moves |-> end.moves, left |-> end.left]

\* ----------------------------------------------------------- the game loop

\* Bind the variables to the controller state g.  The round counter stops at
\* MaxGameRound.
Adopt(g) ==
    /\ g.current_round <= MaxGameRound
    /\ Becomes(g.s)
    /\ turn_manager' = g.turn_manager
    /\ current_round' = g.current_round
    /\ game_over' = g.game_over
    /\ UNCHANGED <<base, portal_links, flags, last, gameplay_state>>

current_faction == turn_manager.current_index + 1

\* An iteration in which _update_game_state ends the game.
GameOver ==
    /\ raised = "none"
    /\ _update_game_state(Game).game_over
    /\ Adopt(_update_game_state(Game))
    /\ UNCHANGED <<attempt, turn, raised>>

\* An iteration on a dead faction's turn.
SkipDead ==
    /\ raised = "none"
    /\ ~_update_game_state(Game).game_over
    /\ ~alive[current_faction]
    /\ Adopt(_advance_turn(Game, flags))
    /\ UNCHANGED <<attempt, turn, raised>>

\* _run_ai_turn: take_turn with the controller's sets, the turn manager's
\* budget and render_callback, then _advance_turn.  An exception of the call
\* leaves _run_ai_turn, _game_loop and run: nothing catches it.
RunAiTurn ==
    /\ raised = "none"
    /\ ~_update_game_state(Game).game_over
    /\ alive[current_faction]
    /\ is_ai(current_faction)
    /\ LET call == call_take_turn(St, current_faction, flags, current_round, turn_manager.move_budget, _run_ai_turn_keywords) IN
           /\ raised' = call.raised
           /\ \E end \in call.ends :
                  /\ Adopt(IF call.raised = "none" THEN _advance_turn([Game EXCEPT !.s = end.s], flags) ELSE Game)
                  /\ turn' = IF call.raised = "none" THEN Turn(current_faction, turn_manager.move_budget, St, end) ELSE turn
    /\ UNCHANGED attempt

\* _handle_player_turn on a build key: _attempt_build on the cell under the
\* cursor.
AttemptBuild(coord) ==
    /\ raised = "none"
    /\ ~_update_game_state(Game).game_over
    /\ alive[current_faction]
    /\ ~is_ai(current_faction)
    /\ LET result == validate(St, coord, current_faction, flags, converted_mountains) IN
           /\ \E after \in {_attempt_build(Game, current_faction, coord, flags)} :
                  /\ Adopt(after)
                  /\ attempt' = [faction |-> current_faction, coord |-> coord, allowed |-> result.allowed,
                                 cost |-> max(1, result.cost),
                                 applied |-> result.allowed /\ turn_manager.moves_left >= max(1, result.cost)]
    /\ UNCHANGED <<turn, raised>>

\* _handle_player_turn on the skip key.
SkipAction ==
    /\ raised = "none"
    /\ ~_update_game_state(Game).game_over
    /\ alive[current_faction]
    /\ ~is_ai(current_faction)
    /\ Adopt(_skip_action(Game, flags))
    /\ UNCHANGED <<attempt, turn, raised>>

GameNext ==
    \/ GameOver
    \/ SkipDead
    \/ RunAiTurn
    \/ \E coord \in Coords : AttemptBuild(coord)
    \/ SkipAction

GameSpec == Init /\ [][GameNext]_vars

\* ------------------------------------------------- take_turn called directly

\* The budget the tests construct their AIController with:
\* make_controller(move_budget=3).
make_controller_move_budget == 3

\* AIController.take_turn called as the tests call it, with the keywords it
\* declares, on a controller of the tests' budget, for any living faction.
TakeTurn(f, round) ==
    /\ alive[f]
    /\ LET call == call_take_turn(St, f, flags, round, make_controller_move_budget, take_turn_keywords) IN
           \E end \in call.ends :
               /\ Becomes(end.s)
               /\ turn' = Turn(f, make_controller_move_budget, St, end)
    /\ current_round' = round
    /\ last' = NoCall
    /\ UNCHANGED <<base, portal_links, flags, turn_manager, game_over, attempt, gameplay_state, raised>>

TurnNext ==
    \/ \E f \in Factions, cell \in Coords : Build(f, cell, current_round)
    \/ \E f \in Factions : TakeTurn(f, current_round)

TurnInit == Setup /\ gameplay_state \in {_build_gameplay_state(anthill) : anthill \in BOOLEAN}

TurnSpec == TurnInit /\ [][TurnNext]_vars

\* ================================================================== claims
\* Some executor call has returned into the current state.
Called == last.faction # None

Holders(s, c) == {f \in Factions : c \in all_buildings(s, f)}

\* C1: after any sequence of captures, applied by MoveExecutor.apply or by the
\* AI's _apply_move on the result validate just gave, every coordinate is in
\* the ownership sets of at most one living faction.
C1_OneLivingHolder ==
    \A c \in Coords : Cardinality({f \in Holders(St, c) : alive[f]}) <= 1

\* A capture took a cell from an owner who lives on, and the cell is the
\* capturer's now.
C1_Witness ==
    /\ Called
    /\ last.owner_alive
    /\ alive[last.result.owner]
    /\ alive[last.faction]
    /\ last.cell \in fortresses[last.faction]

\* C2: a capture of a portal-terrain target that has a partner in portal_links
\* leaves both ends in the acting faction's portal set and fortress set and in
\* no other faction's sets; in no state do the two ends of a link have
\* different holders, or one end a holder and the other none.
C2_PortalPairAtomic ==
    /\ (Called /\ last.terrain_type = "portal" /\ last.cell \in DOMAIN portal_links) =>
           \A end \in {last.cell, portal_links[last.cell]} :
               /\ end \in portals[last.faction]
               /\ end \in fortresses[last.faction]
               /\ Holders(St, end) = {last.faction}
    /\ \A p \in DOMAIN portal_links : Holders(St, p) = Holders(St, portal_links[p])

\* A linked portal was taken from the faction that held the pair.
C2_Witness ==
    /\ Called
    /\ last.terrain_type = "portal"
    /\ last.cell \in DOMAIN portal_links
    /\ last.result.owner # None
    /\ portal_links[last.cell] \in portals[last.faction]

\* No living faction's base is in another faction's ownership sets.
LivingBasesFree(s) ==
    \A f \in Factions : \A g \in Factions \ {f} : s.alive[f] => base[f] \notin all_buildings(s, g)

\* C3: a capture of the base of a living owner returns with the owner dead,
\* the base in the acting faction's fortress set and "<owner> DEFEATED!"
\* emitted; no state, the states between the executor's calls included, has a
\* living faction whose base is in another faction's ownership sets.
C3_BaseFall ==
    /\ (Called /\ last.owner_alive /\ last.cell = base[last.result.owner]) =>
           /\ ~alive[last.result.owner]
           /\ last.cell \in fortresses[last.faction]
           /\ event_log # <<>>
           /\ event_log[Len(event_log)] = <<names[last.result.owner], "DEFEATED!">>
    /\ LivingBasesFree(St)
    /\ \A f \in Factions : \A cell \in Coords :
           LET result == validate(St, cell, f, flags, converted_mountains) IN
           (alive[f] /\ result.allowed) =>
               /\ \A mid \in Steps(St, apply(St, cell, result, f, flags), flags, current_round) : LivingBasesFree(mid)
               /\ \A mid \in Steps(St, _apply_move(St, cell, result, f, flags), flags, current_round) : LivingBasesFree(mid)

\* The base of a living faction has just been captured.
C3_Witness ==
    /\ Called
    /\ last.owner_alive
    /\ last.cell = base[last.result.owner]
    /\ ~alive[last.result.owner]

\* C4: supply mode only narrows legality: whatever validate allows with
\* supply set, it allows with supply clear on the same state.
C4_SupplyNarrows ==
    \A f \in Factions : \A target \in Coords :
        (alive[f] /\ validate(St, target, f, [flags EXCEPT !.supply = TRUE], converted_mountains).allowed)
            => validate(St, target, f, [flags EXCEPT !.supply = FALSE], converted_mountains).allowed

\* Fortress-tier: in the fortress, tower, bridge or portal set, or territory on
\* bridge, portal or tower terrain; the base is not fortress-tier.
FortressTier(s, c, g) ==
    /\ c # base[g]
    /\ \/ c \in s.fortresses[g] \cup s.towers[g] \cup s.bridges[g] \cup s.portals[g]
       \/ c \in s.territory[g] /\ get_terrain_type(s, c) \in {"bridge", "portal", "tower"}

\* C5: with classic set, validate on a fortress-tier cell of a living faction
\* other than the acting one returns allowed = false, owner = that faction and
\* is_fortress = true, whatever the reachability of the target.
C5_ClassicLock ==
    \A f \in Factions : \A g \in Factions \ {f} : \A target \in Coords :
        (alive[f] /\ alive[g] /\ FortressTier(St, target, g)) =>
            LET result == validate(St, target, f, [flags EXCEPT !.classic = TRUE], converted_mountains) IN
            /\ ~result.allowed
            /\ result.owner = g
            /\ result.is_fortress

\* A living faction's fortress-tier cell that the acting faction reaches: only
\* the classic lock stands between it and the capture.
C5_Witness ==
    \E f \in Factions : \E g \in Factions \ {f} : \E target \in Coords :
        /\ alive[f] /\ alive[g] /\ FortressTier(St, target, g)
        /\ validate(St, target, f, [flags EXCEPT !.classic = FALSE], converted_mountains).allowed

\* The sets of faction g that hold c.
Membership(s, c, g) == <<c \in s.territory[g], c \in s.fortresses[g], c \in s.towers[g], c \in s.bridges[g], c \in s.portals[g]>>

\* C6: under classic, over any AI moves and player builds, a fortress-tier
\* coordinate of a living faction is never removed from that faction's sets or
\* transferred to another faction by a capture (the base is not fortress-tier).
C6_ClassicKeepsFortresses ==
    [][flags.classic =>
          \A g \in Factions : \A c \in Coords :
              (alive[g] /\ FortressTier(St, c, g)) =>
                  /\ Membership(St, c, g)' = Membership(St, c, g)
                  /\ Holders(St, c)' \cap {h \in Factions : alive'[h]} = {g} \cap {h \in Factions : alive'[h]}]_vars

\* Under classic, after a call, a living faction holds a fortress-tier cell
\* that another living faction reaches.
C6_Witness ==
    /\ flags.classic
    /\ Called
    /\ \E f \in Factions : \E g \in Factions \ {f} : \E target \in Coords :
           /\ alive[f] /\ alive[g] /\ FortressTier(St, target, g)
           /\ has_reachable_source(St, target, f, all_buildings(St, f) \cup {base[f]}, flags)

Adjacent(a, b) == manhattan_distance(a, b) = 1

\* The cells a faction's base supplies: the least set that holds the base and
\* every own territory or fortress cell adjacent to, or portal-linked from, a
\* cell of the set.
RECURSIVE SupplyClosure(_, _, _)
SupplyClosure(s, f, reached) ==
    LET own == s.territory[f] \cup s.fortresses[f]
        more == {c \in own \ reached : \E r \in reached : Adjacent(r, c) \/ (r \in DOMAIN portal_links /\ portal_links[r] = c)}
    IN  IF more = {} THEN reached ELSE SupplyClosure(s, f, reached \cup more)

Supplied(s, f) == SupplyClosure(s, f, {base[f]})

\* C7: with supply set, validate allows a target only if some orthogonal
\* neighbour of it is the acting faction's base, or a territory or fortress
\* cell of the faction connected to the base by a path of its own territory
\* and fortress cells whose steps are adjacency or a portal link; a target whose
\* own neighbours are all disconnected is rejected even when the default mode
\* allows it.
C7_SupplyNeedsConnection ==
    \A f \in Factions : \A target \in Coords :
        (alive[f] /\ validate(St, target, f, [flags EXCEPT !.supply = TRUE], converted_mountains).allowed) =>
            \E n \in Range(neighbors(target)) :
                \/ n = base[f]
                \/ n \in (territory[f] \cup fortresses[f]) \cap Supplied(St, f)

\* Under supply, a target next to an own cell that is cut off from the base:
\* the default mode allows it, supply mode rejects it.
C7_Witness ==
    /\ flags.supply
    /\ \E f \in Factions : \E target \in Coords :
           /\ alive[f]
           /\ \E n \in Range(neighbors(target)) : n \in all_buildings(St, f) \ Supplied(St, f)
           /\ validate(St, target, f, [flags EXCEPT !.supply = FALSE], converted_mountains).allowed
           /\ ~validate(St, target, f, flags, converted_mountains).allowed

\* C8: a capture of a coordinate that holds a neutral tower returns with the
\* coordinate out of the world's neutral-tower registry, in the capturing
\* faction's tower set and fortress set, and in the captured-tower set.
C8_TowerCapture ==
    (Called /\ last.neutral_tower) =>
        /\ last.cell \notin _towers
        /\ last.cell \in towers[last.faction]
        /\ last.cell \in fortresses[last.faction]
        /\ last.cell \in captured_towers

\* C9: "CAPTURED TOWER!" is emitted exactly once per tower coordinate: on its
\* first capture, and never again.
C9_TowerEventOnce ==
    \A c \in Coords :
        tower_events[c] = IF (is_tower(St, c) \/ has_neutral_tower(St, c)) /\ Holders(St, c) # {} THEN 1 ELSE 0

\* C10: with mountain_efficiency set, a legal mountain target in the discount
\* set costs min(base cost, 1); one absent from the set, or any with the flag
\* clear, costs the unmodified base cost (2 for an unowned standard mountain).
C10_MountainDiscount ==
    \A f \in Factions : \A target \in Coords :
        LET on == validate(St, target, f, [flags EXCEPT !.mountain_efficiency = TRUE], converted_mountains)
            off == validate(St, target, f, [flags EXCEPT !.mountain_efficiency = FALSE], converted_mountains)
            info == resolve(St, target, f)
            plain == IF info.is_fortress THEN fortress_capture_cost ELSE MOUNTAIN_COST
        IN  (get_terrain_type(St, target) = "mountain" /\ on.allowed) =>
                /\ off.allowed
                /\ off.cost = plain
                /\ on.cost = IF target \in converted_mountains THEN (IF plain < 1 THEN plain ELSE 1) ELSE plain
                /\ info.owner = None => off.cost = 2 /\ (target \notin converted_mountains => on.cost = 2)

\* With the flag set, a converted mountain is a legal target at cost 1, and a
\* mountain never converted is a legal target at its base cost.
C10_Witness ==
    /\ flags.mountain_efficiency
    /\ \E f \in Factions : \E target \in converted_mountains :
           LET result == validate(St, target, f, flags, converted_mountains) IN
           /\ get_terrain_type(St, target) = "mountain"
           /\ result.allowed
           /\ result.cost = 1

\* C11: with classic clear, validate on a fortress-tier cell of a living enemy
\* that has an active orthogonal neighbour of the acting faction returns
\* allowed = true, owner = that enemy and is_fortress = true.
C11_ConquestAllows ==
    \A f \in Factions : \A g \in Factions \ {f} : \A target \in Coords : \A supply \in BOOLEAN :
        (/\ alive[f] /\ alive[g] /\ FortressTier(St, target, g)
         /\ \E n \in Range(neighbors(target)) :
                n \in all_buildings(St, f) \cup {base[f]} /\ _is_source_active(St, n, f, supply)) =>
            LET result == validate(St, target, f, [flags EXCEPT !.classic = FALSE, !.supply = supply], converted_mountains) IN
            /\ result.allowed
            /\ result.owner = g
            /\ result.is_fortress

\* In conquest mode a faction has just captured a fortress-tier cell from a
\* living enemy, and another such cell is within its reach.
C11_Witness ==
    /\ ~flags.classic
    /\ Called /\ last.owner_alive /\ last.result.is_fortress
    /\ \E g \in Factions \ {last.faction} : \E target \in Coords :
           /\ alive[g] /\ FortressTier(St, target, g)
           /\ validate(St, target, last.faction, flags, converted_mountains).allowed

Own(s, f) == all_buildings(s, f) \cup {base[f]}

\* C12: validate returns allowed = false for every target that is the acting
\* faction's base or in one of its ownership sets, under every combination of
\* the mode flags; hence no faction captures a coordinate it already owns.
C12_OwnCellRejected ==
    /\ [](\A f \in Factions : \A target \in Own(St, f) : \A fl \in GameModeFlags :
              ~validate(St, target, f, fl, converted_mountains).allowed)
    /\ [][last' # last => last'.cell \notin Own(St, last'.faction)]_vars

\* A faction that holds cells beyond its base has been through validate and
\* the executor again.
C12_Witness ==
    /\ Called
    /\ Cardinality(all_buildings(St, last.faction)) >= 2

\* C13: a faction whose alive flag is false keeps it false in every later
\* state of the session: no build, turn advance or end-of-game update sets it
\* back to true, and neither does the turn advance that begins a round nor the
\* fortress ageing it runs, at whatever round they are applied to the state.
C13_DeadStaysDead ==
    /\ [][\A f \in Factions : ~alive[f] => ~alive'[f]]_vars
    /\ [](\A round \in 0..MaxGameRound : \A f \in Factions :
              ~alive[f] =>
                  LET wrapping == [Game EXCEPT !.current_round = round,
                                               !.turn_manager.current_index = Len(base) - 1]
                  IN  /\ ~_advance_turn(wrapping, flags).s.alive[f]
                      /\ ~_age_fortresses_classic(wrapping, flags).s.alive[f])

\* A base has fallen in a classic game in which a living faction holds a
\* fortress that ageing would turn into territory: a capture has killed, and
\* the turn advance and the ageing step have cells to act on.
C13_Witness ==
    /\ flags.classic
    /\ \E f \in Factions : ~alive[f]
    /\ age_from(St, MaxGameRound, 1) # St

\* C14 as stated: for every faction the five ownership sets are pairwise
\* disjoint, a coordinate appears in at most one of them.
C14_FiveDisjoint ==
    \A f \in Factions :
        LET sets == <<territory[f], fortresses[f], towers[f], bridges[f], portals[f]>> IN
        \A i \in 1..5 : \A j \in (i + 1)..5 : sets[i] \cap sets[j] = {}

\* C14: for every faction, territory shares no coordinate with the fortress,
\* tower, bridge or portal set, and the tower, bridge and portal sets are
\* pairwise disjoint.  The fortress set is apart from territory only: a
\* captured tower, bridge or portal is entered in the fortress set too.
C14_TerritoryApart ==
    \A f \in Factions :
        /\ territory[f] \cap (fortresses[f] \cup towers[f] \cup bridges[f] \cup portals[f]) = {}
        /\ towers[f] \cap bridges[f] = {}
        /\ towers[f] \cap portals[f] = {}
        /\ bridges[f] \cap portals[f] = {}

\* A faction holds an expired fortress as territory next to a captured tower
\* that sits in its tower set and in its fortress set.
C14_Witness ==
    \E f \in Factions : /\ territory[f] # {}
                        /\ towers[f] \cap fortresses[f] # {}

\* C15: whenever validate rejects a target, the owner and is_fortress it
\* returns are those OwnerResolver.resolve yields for that target in that
\* state, whatever the reason of the rejection.
C15_RejectionCarriesOwner ==
    \A f \in Factions : \A target \in Coords : \A fl \in GameModeFlags :
        LET result == validate(St, target, f, fl, converted_mountains)
            owner_info == resolve(St, target, f)
        IN  (alive[f] /\ ~result.allowed) =>
                /\ result.owner = owner_info.owner
                /\ result.is_fortress = owner_info.is_fortress

C17_AttemptAllOrNothing ==
    [][attempt' # attempt =>
          IF ~attempt'.applied
          THEN UNCHANGED <<terrain, _towers, _portals, portal_links, alive, territory, fortresses, towers, bridges, portals,
                           converted_mountains, captured_towers, fortress_ages, event_log, turn_manager, current_round>>
          ELSE \E f \in Factions : \E coord \in Coords :
                   /\ f = attempt'.faction /\ coord = attempt'.coord
                   /\ coord \in all_buildings(St, f)'
                   /\ \A g \in Factions \ {f} : alive'[g] => coord \notin all_buildings(St, g)'
                   /\ (get_terrain_type(St, coord) = "portal" /\ coord \in DOMAIN portal_links) =>
                          {coord, portal_links[coord]} \subseteq portals'[f] \cap fortresses'[f]
                   /\ \/ turn_manager'.moves_left = turn_manager.moves_left - attempt'.cost
                      \/ /\ turn_manager.moves_left = attempt'.cost
                         /\ turn_manager'.current_index = (turn_manager.current_index + 1) % Len(base)
                         /\ turn_manager'.moves_left = turn_manager.move_budget]_vars

\* The player has built, and its last attempt, which the validator allowed,
\* cost more than the moves it had left and was dropped.
C17_Witness ==
    /\ attempt.faction # None /\ attempt.allowed /\ ~attempt.applied
    /\ attempt.cost > turn_manager.moves_left
    /\ all_buildings(St, attempt.faction) # {}

\* C18: if, when take_turn is called for a living faction, at least one
\* candidate exists (a neighbour of an owned cell that validate allows at a
\* cost within the budget and that passes the visibility filter), then when
\* take_turn returns the faction owns a coordinate it did not own before.
C18_TurnGains ==
    (turn.faction # None /\ turn.candidates # {}) => turn.after \ turn.before # {}

\* An AI turn that began with a candidate and took more than one cell.
C18_Witness ==
    /\ turn.faction # None /\ turn.candidates # {}
    /\ Cardinality(turn.after \ turn.before) >= 2

\* C19: an executed capture of a mountain cell under mountain_efficiency
\* enters the target in the mountain-discount set, whichever branch ran (base
\* fall, capture from a living owner, capture of an unowned cell); with the
\* flag clear, or on any other terrain, the capture leaves the set as it was;
\* and no step ever removes an element from the set.
C19_MountainDiscountSet ==
    [][/\ converted_mountains \subseteq converted_mountains'
       /\ last' # last =>
              converted_mountains' =
                  IF flags.mountain_efficiency /\ last'.terrain_type = "mountain"
                  THEN converted_mountains \cup {last'.cell}
                  ELSE converted_mountains]_vars

\* Under mountain_efficiency a mountain cell was taken from its living owner,
\* and the cell is in the discount set.
C19_Witness ==
    /\ Called /\ flags.mountain_efficiency /\ last.terrain_type = "mountain"
    /\ last.owner_alive
    /\ last.cell \in converted_mountains

\* The lists place_portals may hand to its linking loop: up to MaxPortals
\* pairwise distinct coordinates, in any order.
PortalLists == {q \in UNION {[1..n -> Coords] : n \in 0..MaxPortals} : \A i, j \in DOMAIN q : i # j => q[i] # q[j]}

Symmetric(links) == \A p \in DOMAIN links : links[p] \in DOMAIN links /\ links[links[p]] = p

\* C20: the portal-link table is mutually symmetric in every reachable state:
\* every key's partner is a key whose partner is the key.  place_portals
\* leaves a symmetric table for every list of portals it links, and no
\* validator, executor or AI step changes the table afterwards.
C20_PortalLinksSymmetric ==
    /\ \A q \in PortalLists : Symmetric(place_portals(q))
    /\ []Symmetric(portal_links)
    /\ [][portal_links' = portal_links]_vars

\* A faction has captured a linked portal: the executor has read the table
\* and taken both ends.
C20_Witness ==
    /\ Called /\ portal_links # <<>>
    /\ last.terrain_type = "portal"
    /\ {last.cell, portal_links[last.cell]} \subseteq portals[last.faction]

\* C21: the AI turn accepts the driver's per-step notification: a call of
\* take_turn with render_callback raises nothing and makes the moves, and
\* leaves the states, that the call without it makes and leaves, so the game
\* loop's AI turn runs to completion.
C21_NotificationOptional ==
    /\ raised = "none"
    /\ \A f \in Factions :
           alive[f] =>
               LET supplied == call_take_turn(St, f, flags, current_round, turn_manager.move_budget, _run_ai_turn_keywords)
                   omitted == call_take_turn(St, f, flags, current_round, turn_manager.move_budget, take_turn_keywords)
               IN  supplied.raised = "none" /\ supplied.ends = omitted.ends

\* C22: under the default policy a target that validate takes as far as the
\* reachability check (passable, not the faction's own, capturable) and that
\* has an orthogonal neighbour in the acting faction's tower, bridge or portal
\* set passes that check and is allowed, whether or not the holding is adjacent
\* or chained to the faction's territory or base.
C22_StructureSourceActive ==
    \A f \in Factions : \A target \in Coords :
        LET nbrs == neighbors(target)
            my_cells == all_buildings(St, f) \cup {base[f]}
            default == [flags EXCEPT !.supply = FALSE]
        IN  (/\ alive[f]
             /\ ~_is_impassable(_build_tile_context(St, target))
             /\ ~_is_own_cell(target, my_cells)
             /\ _can_capture(St, resolve(St, target, f), default)
             /\ \E i \in DOMAIN nbrs : nbrs[i] \in towers[f] \cup bridges[f] \cup portals[f])
                => /\ has_reachable_source_default(St, target, f, my_cells)
                   /\ validate(St, target, f, default, converted_mountains).allowed

\* The own fortress cells a walk over orthogonally contiguous fortress cells
\* reaches from the cells of group.
RECURSIVE FortressGroup(_, _, _)
FortressGroup(s, f, group) ==
    LET more == {c \in s.fortresses[f] : \E g \in group : \E i \in 1..4 : neighbors(g)[i] = c} IN
    IF more \subseteq group THEN group ELSE FortressGroup(s, f, group \cup more)

\* Some cell of the fortress group of cell is orthogonally adjacent to the
\* faction's territory or base.
Chained(s, f, cell) ==
    \E g \in FortressGroup(s, f, {cell}) : \E i \in 1..4 :
        neighbors(g)[i] = base[f] \/ neighbors(g)[i] \in s.territory[f]

Frontier(s, f) ==
    {n \in Coords : \E cell \in all_buildings(s, f) \cup {base[f]} : \E i \in 1..4 : neighbors(cell)[i] = n}
        \ (all_buildings(s, f) \cup {base[f]})

\* The candidate set as C24 words it, for a faction in state s with left moves
\* remaining.
WordedCandidates(s, f, left) ==
    {coord \in Frontier(s, f) :
        LET result == validate(s, coord, f, flags, s.converted_mountains) IN
        /\ result.allowed
        /\ result.cost <= left
        /\ (result.owner # None /\ s.alive[result.owner]) => coord \in get_visible_cells(s, f)}

\* The iterations of the loop of the last take_turn, each with the state it
\* found and the budget it had left: those that made a move, and the one that
\* found no candidate and ended the loop.
Iterations ==
    {[at |-> turn.moves[k].at, left |-> turn.moves[k].left] : k \in DOMAIN turn.moves}
        \cup (IF turn.faction # None /\ turn.left > 0 THEN {[at |-> St, left |-> turn.left]} ELSE {})

\* The coordinates collect_candidates returned in iteration it.
Collected(it) ==
    {cand.coord : cand \in collect_candidates(it.at, turn.faction, flags, it.left, it.at.converted_mountains, turn.visible_cells)}

\* C24: in each iteration of the loop of take_turn the candidates are exactly
\* the in-bounds cells orthogonally adjacent to an owned cell, not owned, that
\* validate allows at a cost within the remaining budget and that, if their
\* resolved owner is alive, are visible to the faction in the state of that
\* iteration; a cell whose resolved owner is dead or absent is a candidate
\* visible or not.
C24_CandidatesExact ==
    \A it \in Iterations : Collected(it) = WordedCandidates(it.at, turn.faction, it.left)

\* The session state the last take_turn began in.
TurnStart == IF turn.moves = <<>> THEN St ELSE turn.moves[1].at

\* The towers and portals no faction holds that the faction saw when its turn
\* began, orthogonally next to a cell it owned.
PriorityStructures ==
    {c \in turn.visible_cells :
        /\ get_terrain_type(TurnStart, c) \in {"tower", "portal"} \/ c \in TurnStart._towers
        /\ \A f \in Factions : c \notin all_buildings(TurnStart, f) \cup {base[f]}
        /\ \E cell \in turn.before : manhattan_distance(c, cell) = 1}

\* C25: the priority override always wins: whenever a visible unclaimed tower
\* or portal is orthogonally next to an owned cell, the target of the turn is
\* the nearest such structure, also when the base-defense trigger fires.
C25_PriorityWins ==
    (turn.faction # None /\ PriorityStructures # {}) =>
        \A choice \in turn.strategy :
            /\ choice.target \in PriorityStructures
            /\ \A other \in PriorityStructures :
                   manhattan_distance(choice.target, base[turn.faction]) <= manhattan_distance(other, base[turn.faction])

\* The moves a turn paid for its first k moves: max(1, cost) for each.
RECURSIVE Spent(_, _)
Spent(moves, k) == IF k = 0 THEN 0 ELSE Spent(moves, k - 1) + max(1, moves[k].choice.result.cost)

\* C26: within one take_turn every move is applied with the cost validate gave
\* it in the state it was made in, that cost is at most the budget remaining
\* before the move, the remaining budget then drops by max(1, cost) and is
\* never negative, so the moves of a turn sum to at most the turn's budget.
C26_BudgetRespected ==
    turn.faction # None =>
        /\ \A k \in DOMAIN turn.moves :
               LET move == turn.moves[k] IN
               /\ move.choice.result = validate(move.at, move.choice.coord, turn.faction, flags, move.at.converted_mountains)
               /\ move.choice.result.allowed
               /\ move.choice.result.cost <= move.left
               /\ move.left = turn.budget - Spent(turn.moves, k - 1)
               /\ move.left - max(1, move.choice.result.cost) >= 0
        /\ turn.left = turn.budget - Spent(turn.moves, Len(turn.moves))
        /\ turn.left >= 0
        /\ Spent(turn.moves, Len(turn.moves)) <= turn.budget

\* A turn of several moves, one of them dearer than one move, that used the
\* budget up.
C26_Witness ==
    /\ turn.faction # None
    /\ Len(turn.moves) >= 2
    /\ \E k \in DOMAIN turn.moves : turn.moves[k].choice.result.cost > 1
    /\ turn.left = 0

\* C27: take_turn terminates: its loop makes at most as many moves as the
\* turn's budget, and it ends with the budget used up or with no candidate
\* left in the state it ends in.
C27_TurnTerminates ==
    turn.faction # None =>
        /\ Len(turn.moves) <= turn.budget
        /\ turn.left <= 0 \/ Collected([at |-> St, left |-> turn.left]) = {}

\* A turn that made as many moves as its budget and stopped there although a
\* candidate was left.
C27_Witness ==
    /\ turn.faction # None
    /\ Len(turn.moves) = turn.budget
    /\ turn.left = 0
    /\ Collected([at |-> St, left |-> 1]) # {}

\* The factions that claim coordinate c in state s: it is their base or in one
\* of their ownership sets.
Claimants(s, c) == {g \in Factions : c \in Own(s, g)}

\* C28: a dead faction's stale holdings stay capturable and are cleaned on
\* capture.  validate resolves a passable coordinate that only dead factions
\* claim to a dead owner, and the classic lock does not apply to it: the target
\* is allowed exactly when it has a reachable source.  After the executor, or
\* the AI's own move helper, applies a capture with no living owner the target
\* is in no dead faction's ownership sets and is held by the acting faction
\* alone.
C28_StaleHoldings ==
    /\ \A f \in Factions : \A target \in Coords :
           LET result == validate(St, target, f, flags, converted_mountains)
               owner_info == resolve(St, target, f)
           IN  (/\ alive[f]
                /\ Claimants(St, target) # {}
                /\ \A g \in Claimants(St, target) : ~alive[g]
                /\ ~_is_impassable(_build_tile_context(St, target)))
                   => /\ owner_info.owner \in Claimants(St, target)
                      /\ _can_capture(St, owner_info, flags)
                      /\ result.owner = owner_info.owner
                      /\ result.allowed <=> has_reachable_source(St, target, f, Own(St, f), flags)
    /\ (Called /\ ~last.owner_alive) =>
           /\ \A g \in Factions : ~alive[g] => last.cell \notin all_buildings(St, g)
           /\ Holders(St, last.cell) = {last.faction}

\* With classic set, a faction has just captured a fortress-tier holding of a
\* dead faction.
C28_Witness ==
    /\ Called
    /\ flags.classic
    /\ last.result.owner # None
    /\ ~last.owner_alive
    /\ last.result.is_fortress
    /\ last.cell # base[last.result.owner]

\* Coordinate c is in one of the five ownership sets of g before the step and
\* no longer in that set after it.
Leaves(g, c) ==
    \/ c \in territory[g] /\ c \notin territory'[g]
    \/ c \in fortresses[g] /\ c \notin fortresses'[g]
    \/ c \in towers[g] /\ c \notin towers'[g]
    \/ c \in bridges[g] /\ c \notin bridges'[g]
    \/ c \in portals[g] /\ c \notin portals'[g]

\* C29: cleanup of a defeated faction is lazy.  A capture of the base of a
\* living faction leaves that faction's five ownership sets unchanged, and a
\* coordinate leaves a set of a dead faction only in a capture that targets
\* that coordinate or the portal linked to it.
C29_LazyCleanup ==
    [][/\ (last'.faction # None /\ last'.owner_alive /\ last'.cell = base[last'.result.owner]) =>
              LET owner == last'.result.owner IN
              /\ ~alive'[owner]
              /\ territory'[owner] = territory[owner]
              /\ fortresses'[owner] = fortresses[owner]
              /\ towers'[owner] = towers[owner]
              /\ bridges'[owner] = bridges[owner]
              /\ portals'[owner] = portals[owner]
       /\ \A g \in Factions : \A c \in Coords :
              (~alive[g] /\ Leaves(g, c)) =>
                  /\ last'.faction # None
                  /\ \/ last'.cell = c
                     \/ last'.cell \in DOMAIN portal_links /\ portal_links[last'.cell] = c]_vars

\* A capture has just purged one stale holding of a dead faction, which still
\* has another: its base fell while it held both.
C29_Witness ==
    /\ Called
    /\ last.result.owner # None
    /\ ~last.owner_alive
    /\ all_buildings(St, last.result.owner) # {}

\* Every terrain snapshot the cost calculation can be handed: the four terrain
\* tests and the base movement cost, in every combination.
TileSnapshots == [is_water : BOOLEAN, is_bridge : BOOLEAN, is_tower : BOOLEAN, is_portal : BOOLEAN, base_cost : {PLAIN_COST, MOUNTAIN_COST, WATER_COST}]

\* C30: the base capture cost follows a fixed priority for every tile and
\* owner: water without owner costs the bridge-build constant; otherwise a
\* bridge with an owner costs the bridge-capture constant; otherwise tower or
\* portal terrain costs 1; otherwise a fortress-tier cell costs the
\* fortress-capture constant; otherwise the terrain's base movement cost.  A
\* capture of a tower or portal another faction holds is charged 1.
C30_CostPriority ==
    /\ \A tile \in TileSnapshots, owner \in {None} \cup Factions, is_fortress \in BOOLEAN :
           LET cost == compute_base_cost(tile, owner, is_fortress)
               free_water == tile.is_water /\ owner = None
               held_bridge == tile.is_bridge /\ owner # None
               structure == tile.is_tower \/ tile.is_portal
           IN  /\ free_water => cost = bridge_build_cost
               /\ (~free_water /\ held_bridge) => cost = bridge_capture_cost
               /\ (~free_water /\ ~held_bridge /\ structure) => cost = 1
               /\ (~free_water /\ ~held_bridge /\ ~structure /\ is_fortress) => cost = fortress_capture_cost
               /\ (~free_water /\ ~held_bridge /\ ~structure /\ ~is_fortress) => cost = tile.base_cost
    /\ \A f \in Factions, c \in Coords :
           LET result == validate(St, c, f, flags, converted_mountains) IN
           (/\ alive[f]
            /\ result.allowed
            /\ result.owner # None
            /\ get_terrain_type(St, c) \in {"tower", "portal"}) =>
               /\ result.cost = 1
               /\ result.cost # fortress_capture_cost
    /\ (Called /\ last.result.owner # None /\ last.terrain_type \in {"tower", "portal"}) => last.result.cost = 1

\* A tower or portal held by another faction has just been captured.
C30_Witness ==
    /\ Called
    /\ last.result.owner # None
    /\ last.result.is_fortress
    /\ last.terrain_type \in {"tower", "portal"}
    /\ last.cell \in towers[last.faction] \cup portals[last.faction]

\* C31: the category a captured cell gets depends on its previous holder.  On
\* terrain that is not water, tower, portal or bridge, a cell taken from a
\* living owner is a fortress of the acting faction and not its territory; a
\* cell without owner, not fortress-tier, is its territory and not a fortress.
\* A water target is bridge terrain afterwards, held as bridge and fortress.
C31_CategoryByHolder ==
    [][last'.faction # None =>
           LET f == last'.faction
               c == last'.cell
               plain == last'.terrain_type \in {"empty", "mountain"} /\ ~last'.neutral_tower
           IN  /\ (plain /\ last'.owner_alive) =>
                      /\ c \in fortresses'[f]
                      /\ c \notin territory'[f]
               /\ (plain /\ last'.result.owner = None /\ ~last'.result.is_fortress) =>
                      /\ c \in territory'[f]
                      /\ c \notin fortresses'[f]
               /\ last'.terrain_type = "water" =>
                      /\ terrain'[c] = settings_terrain.bridge
                      /\ c \in bridges'[f]
                      /\ c \in fortresses'[f]]_vars

\* A cell without structure has just been taken from a living faction that
\* keeps its base, and the acting faction holds it as a fortress.
C31_Witness ==
    /\ Called
    /\ last.owner_alive
    /\ last.terrain_type \in {"empty", "mountain"}
    /\ last.cell # base[last.result.owner]
    /\ last.cell \in fortresses[last.faction]
    /\ last.cell \notin territory[last.faction]

\* C32: the fortress-age map is written under classic mode only.  Without
\* classic no executor call adds or changes an entry.  With classic every
\* fortress a capture creates, the fall of a base excepted, has an entry
\* equal to the current round, and the fortress on a fallen base has none.
C32_AgesOnlyUnderClassic ==
    [][/\ ~flags.classic =>
              \A c \in DOMAIN fortress_ages' : c \in DOMAIN fortress_ages /\ fortress_ages'[c] = fortress_ages[c]
       /\ (flags.classic /\ last'.faction # None) =>
              LET f == last'.faction
                  base_fall == last'.owner_alive /\ last'.cell = base[last'.result.owner]
              IN  /\ ~base_fall =>
                         \A c \in fortresses'[f] \ fortresses[f] :
                             c \in DOMAIN fortress_ages' /\ fortress_ages'[c] = current_round'
                  /\ base_fall =>
                         /\ last'.cell \in fortresses'[f]
                         /\ last'.cell \notin DOMAIN fortress_ages']_vars

\* Under classic, after the first round, a capture has just created a fortress
\* recorded with the current round, and the acting faction also holds a
\* fallen base as a fortress without entry.
C32_Witness ==
    /\ Called
    /\ flags.classic
    /\ current_round > 0
    /\ last.cell \in fortresses[last.faction]
    /\ last.cell \in DOMAIN fortress_ages
    /\ fortress_ages[last.cell] = current_round
    /\ \E g \in Factions :
           /\ ~alive[g]
           /\ base[g] \in fortresses[last.faction]
           /\ base[g] \notin DOMAIN fortress_ages

\* C33: the priority target is always an unclaimed structure: a tower of the
\* neutral registry or a portal no faction holds, seen by the faction and
\* orthogonally next to a cell it owns.  A portal held by the acting faction
\* or by another one is never returned.
C33_PriorityUnclaimed ==
    turn.faction # None =>
        \A c \in find_priority_target(TurnStart, turn.faction, turn.visible_cells) :
            /\ c \in turn.visible_cells
            /\ \E cell \in turn.before : manhattan_distance(c, cell) = 1
            /\ \/ c \in TurnStart._towers
               \/ /\ get_terrain_type(TurnStart, c) = "portal"
                  /\ \A f \in Factions : c \notin all_buildings(TurnStart, f)

\* Every tower, bridge and portal holding of every faction in session state s
\* is a fortress of that faction as well.
StructuresAreFortresses(s) ==
    \A f \in Factions : s.towers[f] \cup s.bridges[f] \cup s.portals[f] \subseteq s.fortresses[f]

\* C34: in every reachable state each coordinate in a faction's tower, bridge
\* or portal set is in its fortress set too, and the classic ageing of any
\* round leaves it so.
C34_StructuresAreFortresses ==
    [](/\ StructuresAreFortresses(St)
       /\ \A round \in 0..MaxGameRound : StructuresAreFortresses(age_from(St, round, 1)))

\* Under classic a living faction holds a tower, bridge or portal with an age
\* entry old enough to expire, and ageing does turn one of its fortresses on
\* open ground into territory.
C34_Witness ==
    /\ flags.classic
    /\ \E f \in Factions :
           /\ alive[f]
           /\ \E c \in towers[f] \cup bridges[f] \cup portals[f] :
                  c \in DOMAIN fortress_ages /\ MaxGameRound - fortress_ages[c] > 5
           /\ age_from(St, MaxGameRound, 1).territory[f] # territory[f]

\* Every BuildResult a caller can hand to the executor for faction f: the one
\* validate gives for the cell, and every combination of owner and tier.
Results(f, c) ==
    {validate(St, c, f, flags, converted_mountains)}
        \cup {BuildResult(TRUE, 1, owner, is_fortress) : owner \in {None} \cup (Factions \ {f}), is_fortress \in BOOLEAN}

C36_SomeoneAlive ==
    /\ [](\E f \in Factions : alive[f])
    /\ [][last'.faction # None =>
              /\ alive[last'.faction]
              /\ alive'[last'.faction]
              /\ last'.result.owner # last'.faction
              /\ \A g \in Factions : (alive[g] /\ ~alive'[g]) => g = last'.result.owner]_vars

\* One faction is left alive, and it has just taken the base of the last
\* living opponent.
C36_Witness ==
    /\ Called
    /\ last.owner_alive
    /\ last.cell = base[last.result.owner]
    /\ \A f \in Factions : alive[f] <=> f = last.faction

\* The controller at the end of the last faction's turn of round - 1, the
\* session being in its current state: the next turn advance begins round.
Wrapping(round) ==
    [Game EXCEPT !.current_round = round - 1, !.turn_manager.current_index = Len(base) - 1]

\* C37: at a round rollover under classic a living faction's fortress turns
\* into its territory and loses its age entry exactly when it has an age
\* entry with current_round - placed_round > 5 and is not on bridge, tower or
\* portal terrain.  Fortresses on such terrain, fortresses without entry and
\* fortresses of dead factions stay as they are.
C37_ClassicAgeing ==
    []((flags.classic /\ Len(base) > 1) =>
            \A round \in 1..MaxGameRound :
                LET rolled == _advance_turn(Wrapping(round), flags) IN
                /\ rolled.current_round = round
                /\ \A f \in Factions : \A c \in fortresses[f] :
                       LET expires ==
                               /\ alive[f]
                               /\ c \in DOMAIN fortress_ages
                               /\ round - fortress_ages[c] > 5
                               /\ get_terrain_type(St, c) \notin {"bridge", "tower", "portal"}
                       IN  /\ expires =>
                                  /\ c \notin rolled.s.fortresses[f]
                                  /\ c \in rolled.s.territory[f]
                                  /\ c \notin DOMAIN rolled.s.fortress_ages
                           /\ ~expires =>
                                  /\ c \in rolled.s.fortresses[f]
                                  /\ c \in rolled.s.territory[f] <=> c \in territory[f]
                                  /\ c \in DOMAIN fortress_ages =>
                                         c \in DOMAIN rolled.s.fortress_ages /\ rolled.s.fortress_ages[c] = fortress_ages[c])

\* A classic game in which the rollover into the last round expires a
\* fortress of a living faction on open ground while that faction keeps a
\* fortress on bridge, tower or portal terrain of the same age, and a dead
\* faction keeps a fortress.
C37_Witness ==
    /\ flags.classic
    /\ \E f \in Factions :
           /\ alive[f]
           /\ \E c \in fortresses[f] :
                  /\ c \in DOMAIN fortress_ages
                  /\ get_terrain_type(St, c) \in {"bridge", "tower", "portal"}
                  /\ MaxGameRound - fortress_ages[c] > 5
           /\ \E c \in fortresses[f] : c \in _advance_turn(Wrapping(MaxGameRound), flags).s.territory[f]
    /\ \E g \in Factions : ~alive[g] /\ fortresses[g] # {}

\* The game is over: one faction is left alive, or the human player's faction
\* is dead.
Over == Cardinality({f \in Factions : alive[f]}) = 1 \/ ~alive[player_faction_idx + 1]

Consumes(amount) ==
    IF turn_manager.moves_left - amount > 0
    THEN turn_manager' = [turn_manager EXCEPT !.moves_left = @ - amount]
    ELSE /\ turn_manager.moves_left - amount = 0
         /\ turn_manager' = [turn_manager EXCEPT !.current_index = (@ + 1) % Len(base),
                                                 !.moves_left = turn_manager.move_budget]

\* C39: moves_left is never negative.  A build is executed only with
\* moves_left >= max(1, cost) and a skip only with moves_left > 0, each takes
\* exactly that amount, and when moves_left reaches 0 the turn passes to the
\* next index modulo the faction count with moves_left back at the budget.
C39_MovesLeft ==
    /\ [](turn_manager.moves_left >= 0)
    /\ [][/\ (attempt' # attempt /\ attempt'.applied) =>
                 /\ attempt'.cost >= 1
                 /\ turn_manager.moves_left >= attempt'.cost
                 /\ Consumes(attempt'.cost)
          /\ (attempt' = attempt /\ turn_manager' # turn_manager /\ alive[current_faction]) =>
                 /\ turn_manager.moves_left > 0
                 /\ Consumes(1)]_vars

\* The player's build on a cell costing more than one move has used up the
\* moves left, and the turn has passed to the next faction with the full
\* budget.
C39_Witness ==
    /\ attempt.applied
    /\ attempt.cost > 1
    /\ turn_manager.current_index = (player_faction_idx + 1) % Len(base)
    /\ turn_manager.moves_left = turn_manager.move_budget

====
